---------------------------- MODULE Spec2Model ----------------------------
(***************************************************************************)
(* A model of the pile-SRI calculation engine (src/calculations_v2_1.py).  *)
(*                                                                         *)
(* The engine works on floating-point numbers; the model carries every     *)
(* quantity as an integer count of a fixed unit:                           *)
(*                                                                         *)
(*   depth, length        ticks of 0.05 m  (0.1 m = 2 ticks, 0.25 m = 5)   *)
(*   pile diameter        quarter-metres   (0.5 m = 2, 1.5 m = 6)          *)
(*   unit weight          kN/m3                                            *)
(*   su                   kPa                                              *)
(*   friction angle       degrees                                          *)
(*   overburden stress    1/20 kPa                                         *)
(*   unit friction / unit end bearing      1/2000 kPa                      *)
(*   clay alpha factor    1/2000                                           *)
(*   raw force            pi * (0.25 m)^2 / 2000 kN                        *)
(*   resistance factor    1/20                                             *)
(*   reported force       (raw force unit) / 20                            *)
(*   p-y displacement     1/152000 m       (1.0 m = 152000)                *)
(*   p-y resistance       1/8000 kN/m                                      *)
(*                                                                         *)
(* The inputs the model enumerates are multiples of 0.25 m, which binary   *)
(* floating point represents exactly, so that the sample grids built by    *)
(* np.arange hold the same number of samples in the code and in the model. *)
(* A division that is not exact is floored to the unit.                    *)
(***************************************************************************)
EXTENDS Integers, Sequences, FiniteSets, TLC

VARIABLES profile, pile, pc, args, results, call

vars == <<profile, pile, pc, args, results, call>>

-----------------------------------------------------------------------------
(* Units and program constants                                             *)

\* np.nan: soil property values are >= 0 (SoilPoint.__post_init__), so a
\* negative number stands for not-a-number.
NaN == -1

\* resistance_factor: Optional[float] = None
None == -2

IsNaN(x) == x = NaN
IsFinite(x) == x # NaN

Min(a, b) == IF a <= b THEN a ELSE b
Max(a, b) == IF a >= b THEN a ELSE b

\* dz of calculate_overburden_stress (0.1 m) and of total_capacity_layered
\* (0.25 m), in ticks.
DzStress == 2
DzFriction == 5

\* API_TABLE_1_EXTENDED: beta in 1/100, f_L in kPa, Nq, q_L in MPa; None for
\* the combinations the table lists without parameters.
API_TABLE_1_EXTENDED ==
    [k \in {<<"very_loose", "sand">>, <<"loose", "sand">>, <<"loose", "sand-silt">>,
            <<"medium_dense", "silt">>, <<"medium_dense", "sand">>,
            <<"medium_dense", "sand-silt">>, <<"dense", "sand-silt">>,
            <<"dense", "sand">>, <<"very_dense", "sand">>} |->
       CASE k = <<"medium_dense", "sand-silt">> -> [beta |-> 29, f_L_kPa |-> 67, Nq |-> 12, q_L_MPa |-> 3]
         [] k = <<"dense", "sand-silt">> -> [beta |-> 37, f_L_kPa |-> 81, Nq |-> 20, q_L_MPa |-> 5]
         [] k = <<"dense", "sand">> -> [beta |-> 46, f_L_kPa |-> 96, Nq |-> 40, q_L_MPa |-> 10]
         [] k = <<"very_dense", "sand">> -> [beta |-> 58, f_L_kPa |-> 115, Nq |-> 50, q_L_MPa |-> 12]
         [] OTHER -> [beta |-> None, f_L_kPa |-> None, Nq |-> None, q_L_MPa |-> None]]

\* RESISTANCE_FACTORS, in 1/20.
RESISTANCE_FACTORS ==
    [axial_compression_driven |-> 14, axial_compression_drilled |-> 11,
     axial_tension_driven |-> 12, axial_tension_drilled |-> 10]

\* CARBONATE_REDUCTION_FACTORS, in 1/100.
CARBONATE_REDUCTION_FACTORS ==
    [driven_pile |-> [low_carbonate |-> 100, moderate_carbonate |-> 75,
                      high_carbonate |-> 50, cemented |-> 120],
     drilled_grouted |-> [all_carbonate |-> 85]]

\* RelativeDensity.from_percentage
from_percentage(dr_pct) ==
    IF dr_pct < 15 THEN "very_loose"
    ELSE IF dr_pct < 35 THEN "loose"
    ELSE IF dr_pct < 65 THEN "medium_dense"
    ELSE IF dr_pct < 85 THEN "dense"
    ELSE "very_dense"

-----------------------------------------------------------------------------
(* Data classes                                                            *)

SoilPoint(depth_m, value) == [depth_m |-> depth_m, value |-> value]

\* list.sort(key=lambda p: p.depth_m): a stable sort by depth.
RECURSIVE SortByDepth(_)
SortByDepth(points) ==
    IF Len(points) <= 1 THEN points
    ELSE LET rest == SortByDepth(Tail(points))
             p == Head(points)
             \* p goes before the first point of rest that is strictly deeper
             \* ... stable: after the points of rest at a smaller depth only
             k == Cardinality({i \in 1..Len(rest) : rest[i].depth_m < p.depth_m})
         IN  SubSeq(rest, 1, k) \o <<p>> \o SubSeq(rest, k + 1, Len(rest))

\* SoilLayer.__post_init__ (valid input): the four curves sorted by depth.
SoilLayer(name, soil_type, depth_top_m, depth_bot_m, gamma, su, phi, E50, dr_pct) ==
    [name |-> name, soil_type |-> soil_type,
     depth_top_m |-> depth_top_m, depth_bot_m |-> depth_bot_m,
     gamma_prime |-> SortByDepth(gamma), su |-> SortByDepth(su),
     phi_prime |-> SortByDepth(phi), E50 |-> SortByDepth(E50),
     relative_density_pct |-> dr_pct]

\* A SoilLayer built with the keyword arguments carbonate_content_pct and
\* is_cemented (their defaults are 0.0 and False); __post_init__ stores them
\* as supplied.
WithCarbonate(layer, carbonate_content_pct, is_cemented) ==
    [f \in DOMAIN layer \cup {"carbonate_content_pct", "is_cemented"} |->
        IF f = "carbonate_content_pct" THEN carbonate_content_pct
        ELSE IF f = "is_cemented" THEN is_cemented
        ELSE layer[f]]

\* PileProperties.__post_init__ (valid input). area_gross_m2 = pi D^2 / 4 and
\* the perimeter pi D carry pi in their unit.
PileProperties(diameter_m, length_m, pile_type) ==
    [diameter_m |-> diameter_m, length_m |-> length_m, pile_type |-> pile_type,
     area_gross_m2 |-> (diameter_m * diameter_m) \div 4]

\* The outcome of a constructor call: the exception __post_init__ raises and
\* no object, or the object.
Rejected(exception) == [raised |-> exception, object |-> None]
Constructed(object) == [raised |-> "", object |-> object]

\* SoilPoint(depth_m, value), with the checks of SoilPoint.__post_init__.
SoilPoint_post_init(depth_m, value) ==
    IF depth_m < 0 THEN Rejected("ValueError")
    ELSE IF value < 0 THEN Rejected("ValueError")
    ELSE Constructed(SoilPoint(depth_m, value))

\* SoilLayer.__post_init__ with a check that lets a layer of zero thickness
\* pass.
SoilLayer_allowing_zero_thickness(name, soil_type, depth_top_m, depth_bot_m, gamma, su, phi, E50, dr_pct) ==
    IF depth_bot_m < depth_top_m THEN Rejected("ValueError")
    ELSE Constructed(SoilLayer(name, soil_type, depth_top_m, depth_bot_m,
                               gamma, su, phi, E50, dr_pct))

\* SoilLayer(...), with the check of SoilLayer.__post_init__.
SoilLayer_post_init(name, soil_type, depth_top_m, depth_bot_m, gamma, su, phi, E50, dr_pct) ==
    IF depth_bot_m <= depth_top_m THEN Rejected("ValueError")
    ELSE Constructed(SoilLayer(name, soil_type, depth_top_m, depth_bot_m,
                               gamma, su, phi, E50, dr_pct))

\* PileProperties(...), with the check of PileProperties.__post_init__ and all
\* three derived fields: the wall thickness is in quarter-metres like the
\* diameter, area_shaft_m2 = pi D L in units of pi * 0.25 m * 0.05 m.
PileProperties_post_init(diameter_m, wall_thickness_m, length_m, pile_type) ==
    IF diameter_m <= 0 THEN Rejected("ValueError")
    ELSE Constructed(
            [diameter_m |-> diameter_m, wall_thickness_m |-> wall_thickness_m,
             length_m |-> length_m, pile_type |-> pile_type,
             area_gross_m2 |-> PileProperties(diameter_m, length_m, pile_type).area_gross_m2,
             area_shaft_m2 |-> diameter_m * length_m,
             inner_diameter_m |-> diameter_m - 2 * wall_thickness_m])

\* SoilLayer.get_property_at_depth's choice of the curve.
LayerCurve(layer, property_name) ==
    CASE property_name = "gamma_prime" -> layer.gamma_prime
      [] property_name = "su" -> layer.su
      [] property_name = "phi_prime" -> layer.phi_prime
      [] property_name = "E50" -> layer.E50

\* The interpolation loop of SoilLayer.get_property_at_depth: the first i with
\* profile[i-1].depth_m <= abs_depth <= profile[i].depth_m.
RECURSIVE InterpolateFrom(_, _, _)
InterpolateFrom(curve, abs_depth, i) ==
    IF i > Len(curve) THEN NaN
    ELSE IF curve[i-1].depth_m <= abs_depth /\ abs_depth <= curve[i].depth_m
         THEN LET z1 == curve[i-1].depth_m
                  v1 == curve[i-1].value
                  z2 == curve[i].depth_m
                  v2 == curve[i].value
              IN  IF z2 = z1 THEN v1
                  ELSE v1 + ((abs_depth - z1) * (v2 - v1)) \div (z2 - z1)
         ELSE InterpolateFrom(curve, abs_depth, i + 1)

\* A faulty variant of CurveValueAt, without the clamp at the last point: the
\* interpolation loop finds no bracket below the last point.
CurveValueAtUnclamped(curve, abs_depth) ==
    IF curve = <<>> THEN NaN
    ELSE IF abs_depth <= curve[1].depth_m THEN curve[1].value
    ELSE IF abs_depth = curve[Len(curve)].depth_m THEN curve[Len(curve)].value
    ELSE InterpolateFrom(curve, abs_depth, 2)

\* The curve part of SoilLayer.get_property_at_depth, at an absolute depth.
CurveValueAt(curve, abs_depth) ==
    IF curve = <<>> THEN NaN
    ELSE IF abs_depth <= curve[1].depth_m THEN curve[1].value
    ELSE IF abs_depth >= curve[Len(curve)].depth_m THEN curve[Len(curve)].value
    ELSE InterpolateFrom(curve, abs_depth, 2)

\* SoilLayer.get_property_at_depth(depth_m, property_name): depth_m is relative
\* to the layer top.
SoilLayer_get_property_at_depth(layer, depth_m, property_name) ==
    CurveValueAt(LayerCurve(layer, property_name), layer.depth_top_m + depth_m)

\* SoilLayer.get_relative_density_class
get_relative_density_class(layer) == from_percentage(layer.relative_density_pct)

\* A faulty variant of get_layer_at_depth, with the bottom of a layer
\* inclusive: top <= depth <= bottom.
get_layer_bottom_inclusive(prof, depth_m) ==
    LET hits == {i \in 1..Len(prof) :
                    prof[i].depth_top_m <= depth_m /\ depth_m <= prof[i].depth_bot_m}
    IN  IF hits = {} THEN 0 ELSE CHOOSE i \in hits : \A j \in hits : i <= j

\* SoilProfile.get_layer_at_depth: the index of the first layer with
\* top <= depth < bottom, 0 for None.
get_layer_at_depth(prof, depth_m) ==
    LET hits == {i \in 1..Len(prof) :
                    prof[i].depth_top_m <= depth_m /\ depth_m < prof[i].depth_bot_m}
    IN  IF hits = {} THEN 0 ELSE CHOOSE i \in hits : \A j \in hits : i <= j

\* SoilProfile.get_property_at_depth
SoilProfile_get_property_at_depth(prof, depth_m, property_name) ==
    LET li == get_layer_at_depth(prof, depth_m)
    IN  IF li = 0 THEN NaN
        ELSE SoilLayer_get_property_at_depth(prof[li], depth_m - prof[li].depth_top_m,
                                             property_name)

-----------------------------------------------------------------------------
(* Overburden stress                                                       *)

\* len(np.arange(0, stop, step)) = ceil(stop / step), for stop > 0.
ArangeLen(stop, step) == IF stop <= 0 THEN 0 ELSE (stop + step - 1) \div step

\* np.trapz(y, x) over the samples zs (depths, in ticks) with the values g[z]:
\* the sum over the intervals i = lo..hi of (y1 + y2) / 2 * (x2 - x1), in
\* 1/20 kPa.  The depths are multiples of DzStress, so the halving is exact.
\* The sum is split in halves to keep the evaluation shallow.
RECURSIVE Trapz(_, _, _, _)
Trapz(zs, g, lo, hi) ==
    IF lo > hi THEN 0
    ELSE IF lo = hi
    THEN ((g[zs[lo]] + g[zs[lo+1]]) * (zs[lo+1] - zs[lo])) \div 2
    ELSE LET mid == (lo + hi) \div 2
         IN  Trapz(zs, g, lo, mid) + Trapz(zs, g, mid + 1, hi)

\* A faulty variant of calculate_overburden_stress, without the mask of the
\* valid samples: a sample without unit weight makes the integral NaN.
overburden_stress_unmasked(prof, depth_m) ==
    IF depth_m <= 0 THEN 0
    ELSE LET n == ArangeLen(depth_m + DzStress, DzStress)
             depths == {k * DzStress : k \in 0..(n - 1)}
             Integrate(gamma_primes) ==
                 IF \E z \in depths : IsNaN(gamma_primes[z]) THEN NaN
                 ELSE Trapz([k \in 1..n |-> (k - 1) * DzStress], gamma_primes, 1, n - 1)
         IN  Integrate([z \in depths |->
                           SoilProfile_get_property_at_depth(prof, z, "gamma_prime")])

\* SoilProfile.calculate_overburden_stress(depth_m), dz = 0.1
calculate_overburden_stress(prof, depth_m) ==
    IF depth_m <= 0 THEN 0
    ELSE LET n == ArangeLen(depth_m + DzStress, DzStress)
             depths == {k * DzStress : k \in 0..(n - 1)}
             Integrate(gamma_primes) ==
                 LET valid(z) == ~IsNaN(gamma_primes[z])
                     zs == SelectSeq([k \in 1..n |-> (k - 1) * DzStress], valid)
                 IN  IF Len(zs) < 2 THEN 0 ELSE Trapz(zs, gamma_primes, 1, Len(zs) - 1)
         IN  Integrate([z \in depths |->
                           SoilProfile_get_property_at_depth(prof, z, "gamma_prime")])

-----------------------------------------------------------------------------
(* Axial capacity                                                          *)

\* floor(sqrt(n)) by bisection; lo * lo <= n < hi * hi.
RECURSIVE ISqrtBetween(_, _, _)
ISqrtBetween(n, lo, hi) ==
    IF hi - lo <= 1 THEN lo
    ELSE LET mid == (lo + hi) \div 2
         IN  IF mid * mid <= n THEN ISqrtBetween(n, mid, hi)
             ELSE ISqrtBetween(n, lo, mid)

ISqrt(n) == ISqrtBetween(n, 0, 46341)

\* A faulty variant of clay_alpha, without min(alpha, 1.0).
clay_alpha_uncapped(su, p_o_prime) ==
    IF su * 20 <= p_o_prime
    THEN ISqrt((50000 * p_o_prime) \div su)
    ELSE ISqrt(100 * ISqrt((5000000 \div su) * p_o_prime))

\* The alpha factor of clay_shaft_friction in 1/2000 (floored), from su (kPa)
\* and p_o_prime (1/20 kPa):  psi = su / p_o_prime,
\*   alpha = 0.5 psi^-0.5 if psi <= 1 else 0.5 psi^-0.25, then min(alpha, 1).
\* 2000 alpha = sqrt(50000 p / su), resp. sqrt(100 sqrt(5000000 p / su)).
clay_alpha(su, p_o_prime) ==
    LET a == IF su * 20 <= p_o_prime
             THEN ISqrt((50000 * p_o_prime) \div su)
             ELSE ISqrt(100 * ISqrt((5000000 \div su) * p_o_prime))
    IN  Min(a, 2000)

\* AxialCapacity.clay_shaft_friction, in 1/2000 kPa; 0.8 * f_compression is
\* floored to the unit.
clay_shaft_friction(depth_m, prof, pl, for_tension) ==
    LET Friction(su, p0) ==
            IF ~IsFinite(su) \/ su <= 0 THEN 0
            ELSE LET p_o_prime == IF p0 <= 0 THEN 20 ELSE p0
                     alpha == clay_alpha(su, p_o_prime)
                     Directed(f_compression) ==
                         IF for_tension THEN (8 * f_compression) \div 10
                         ELSE f_compression
                 IN  Directed(alpha * su)
    IN  Friction(SoilProfile_get_property_at_depth(prof, depth_m, "su"),
                 calculate_overburden_stress(prof, depth_m))

\* The key of API_TABLE_1_EXTENDED for a layer.
TableKey(layer) == <<get_relative_density_class(layer), layer.soil_type>>

\* key in API_TABLE_1_EXTENDED and API_TABLE_1_EXTENDED[key][field] is not None
HasTableParam(key, field) ==
    /\ key \in DOMAIN API_TABLE_1_EXTENDED
    /\ API_TABLE_1_EXTENDED[key][field] # None

\* AxialCapacity.sand_shaft_friction, in 1/2000 kPa (beta in 1/100 times the
\* stress in 1/20 kPa).
sand_shaft_friction(depth_m, prof, pl, for_tension) ==
    LET li == get_layer_at_depth(prof, depth_m)
    IN  IF li = 0 \/ prof[li].soil_type \notin {"sand", "sand-silt"} THEN 0
        ELSE LET key == TableKey(prof[li])
                 Friction(p_o_prime) ==
                     IF p_o_prime <= 0 THEN 0
                     ELSE IF HasTableParam(key, "beta")
                          THEN Min(API_TABLE_1_EXTENDED[key].beta * p_o_prime,
                                   API_TABLE_1_EXTENDED[key].f_L_kPa * 2000)
                          ELSE 25 * p_o_prime
             IN  Friction(calculate_overburden_stress(prof, depth_m))

\* The warnings AxialCapacity.sand_shaft_friction emits: one, on the fallback
\* path (a sand layer, positive stress, no beta in the table).
sand_shaft_friction_warnings(depth_m, prof, pl) ==
    LET li == get_layer_at_depth(prof, depth_m)
    IN  IF li = 0 \/ prof[li].soil_type \notin {"sand", "sand-silt"} THEN <<>>
        ELSE IF calculate_overburden_stress(prof, depth_m) <= 0 THEN <<>>
        ELSE IF HasTableParam(TableKey(prof[li]), "beta") THEN <<>>
        ELSE <<"Soil type not in API Table 1, using conservative estimate">>

\* AxialCapacity.end_bearing_clay, in 1/2000 kPa.
end_bearing_clay(depth_m, prof, pl) ==
    LET su == SoilProfile_get_property_at_depth(prof, depth_m, "su")
    IN  IF ~IsFinite(su) \/ su <= 0 THEN 0 ELSE 9 * su * 2000

\* exp(pi tan(phi)) tan(pi/4 + phi/2)^2 of end_bearing_sand's fallback, in
\* 1/100 (floored), for phi = 1..45 degrees.
NqFallback ==
    <<109, 119, 130, 143, 156, 171, 187, 205, 225, 247, 271, 297, 326, 358, 394,
      433, 477, 525, 579, 639, 707, 782, 866, 960, 1066, 1185, 1319, 1471, 1644,
      1840, 2063, 2317, 2609, 2943, 3329, 3775, 4291, 4893, 5595, 6419, 7389,
      8537, 9901, 11530, 13487>>

\* AxialCapacity.end_bearing_sand, in 1/2000 kPa.
end_bearing_sand(depth_m, prof, pl) ==
    LET li == get_layer_at_depth(prof, depth_m)
    IN  IF li = 0 \/ prof[li].soil_type \notin {"sand", "sand-silt"} THEN 0
        ELSE LET key == TableKey(prof[li])
                 Bearing(p_o_tip, phi_prime) ==
                     IF p_o_tip <= 0 THEN 0
                     ELSE IF HasTableParam(key, "Nq")
                          THEN Min(API_TABLE_1_EXTENDED[key].Nq * p_o_tip * 100,
                                   API_TABLE_1_EXTENDED[key].q_L_MPa * 1000 * 2000)
                          ELSE IF IsFinite(phi_prime) /\ phi_prime > 0
                               THEN NqFallback[phi_prime] * p_o_tip
                               ELSE 0
             IN  Bearing(calculate_overburden_stress(prof, depth_m),
                         SoilProfile_get_property_at_depth(prof, depth_m, "phi_prime"))

\* The warnings AxialCapacity.end_bearing_sand emits: none; its fallback
\* branch returns Nq(phi') p_o_tip, or 0.0, without a call of warnings.warn.
end_bearing_sand_warnings(depth_m, prof, pl) == <<>>

\* A faulty variant of check_penetration_requirement, asking for one diameter
\* of penetration instead of two.
check_penetration_one_diameter(depth_m, pl, layer) ==
    LET penetration == depth_m - layer.depth_top_m
        min_penetration == 1 * pl.diameter_m * 5
        recommended_penetration == 3 * pl.diameter_m * 5
    IN  IF penetration < min_penetration
        THEN <<FALSE, "Insufficient penetration">>
        ELSE IF penetration < recommended_penetration
        THEN <<TRUE, "Adequate penetration">>
        ELSE <<TRUE, "Good penetration">>

\* AxialCapacity.check_penetration_requirement: <<meets, message>>.  The
\* message is modelled by its wording without the formatted numbers.
check_penetration_requirement(depth_m, pl, layer) ==
    LET penetration == depth_m - layer.depth_top_m
        min_penetration == 2 * pl.diameter_m * 5
        recommended_penetration == 3 * pl.diameter_m * 5
    IN  IF penetration < min_penetration
        THEN <<FALSE, "Insufficient penetration">>
        ELSE IF penetration < recommended_penetration
        THEN <<TRUE, "Adequate penetration">>
        ELSE <<TRUE, "Good penetration">>

\* The unit friction total_capacity_layered takes at depth z in layer li.
UnitFriction(prof, pl, li, z, for_tension) ==
    IF prof[li].soil_type \in {"clay", "silt"}
    THEN clay_shaft_friction(z, prof, pl, for_tension)
    ELSE IF prof[li].soil_type \in {"sand", "sand-silt"}
    THEN sand_shaft_friction(z, prof, pl, for_tension)
    ELSE 0

\* One round of the integration loop of total_capacity_layered, at z: what
\* the round adds to total_friction_kN and to the running layer entry.  A
\* round that finds no layer is skipped ("continue") and adds nothing.
FrictionRound(prof, pl, z, for_tension) ==
    LET li == get_layer_at_depth(prof, z)
    IN  IF li = 0 THEN [total |-> 0, contributions |-> <<>>]
        ELSE LET f_z == UnitFriction(prof, pl, li, z, for_tension)
                 perimeter == pl.diameter_m
                 Added(friction_increment) ==
                     [total |-> friction_increment,
                      contributions |-> <<[layer |-> prof[li].name,
                                           friction_kN |-> friction_increment]>>]
             IN  Added(f_z * perimeter * 1)

\* The loop variables after the rounds of a, continued by the rounds of b:
\* total_friction_kN adds up, and a round whose layer name equals
\* current_layer_name adds to current_layer_friction, any other name closes
\* the running entry and opens a new one.
JoinRounds(a, b) ==
    LET ca == a.contributions
        cb == b.contributions
    IN  [total |-> a.total + b.total,
         contributions |->
            IF ca = <<>> THEN cb
            ELSE IF cb = <<>> THEN ca
            ELSE IF ca[Len(ca)].layer = cb[1].layer
            THEN SubSeq(ca, 1, Len(ca) - 1)
                 \o <<[layer |-> cb[1].layer,
                       friction_kN |-> ca[Len(ca)].friction_kN + cb[1].friction_kN]>>
                 \o Tail(cb)
            ELSE ca \o cb]

\* The loop "for z in np.arange(0, depth_m, 0.25)", rounds lo..hi (round k
\* is at z = k * 0.25): total_friction_kN and the layer entries, the
\* running one last.  The rounds are joined in halves to keep the
\* evaluation shallow.
RECURSIVE FrictionLoop(_, _, _, _, _)
FrictionLoop(prof, pl, lo, hi, for_tension) ==
    IF lo > hi THEN [total |-> 0, contributions |-> <<>>]
    ELSE IF lo = hi THEN FrictionRound(prof, pl, lo * DzFriction, for_tension)
    ELSE LET mid == (lo + hi) \div 2
         IN  JoinRounds(FrictionLoop(prof, pl, lo, mid, for_tension),
                        FrictionLoop(prof, pl, mid + 1, hi, for_tension))

\* A faulty variant of DefaultResistanceFactor, giving every pile type the
\* factors of a driven pile.
DrivenResistanceFactor(pl, for_tension) ==
    IF for_tension THEN RESISTANCE_FACTORS.axial_tension_driven
    ELSE RESISTANCE_FACTORS.axial_compression_driven

\* A faulty variant of DefaultResistanceFactor, with the factors of the two
\* loading directions exchanged.
ExchangedResistanceFactor(pl, for_tension) ==
    IF pl.pile_type \in {"driven_pipe_open", "driven_pipe_closed"}
    THEN IF for_tension THEN RESISTANCE_FACTORS.axial_compression_driven
         ELSE RESISTANCE_FACTORS.axial_tension_driven
    ELSE IF for_tension THEN RESISTANCE_FACTORS.axial_compression_drilled
         ELSE RESISTANCE_FACTORS.axial_tension_drilled

\* The default resistance factor of total_capacity_layered.
DefaultResistanceFactor(pl, for_tension) ==
    IF pl.pile_type \in {"driven_pipe_open", "driven_pipe_closed"}
    THEN IF for_tension THEN RESISTANCE_FACTORS.axial_tension_driven
         ELSE RESISTANCE_FACTORS.axial_compression_driven
    ELSE IF for_tension THEN RESISTANCE_FACTORS.axial_tension_drilled
         ELSE RESISTANCE_FACTORS.axial_compression_drilled

\* A faulty variant of EndBearing, adding end bearing whatever the loading
\* direction.
EndBearingAnyDirection(prof, pl, depth_m, for_tension) ==
    LET ti == get_layer_at_depth(prof, depth_m)
    IN  IF ti = 0 THEN <<0, "N/A">>
        ELSE LET chk == check_penetration_requirement(depth_m, pl, prof[ti])
             IN  IF chk[1]
                 THEN LET q == IF prof[ti].soil_type \in {"clay", "silt"}
                               THEN end_bearing_clay(depth_m, prof, pl)
                               ELSE end_bearing_sand(depth_m, prof, pl)
                      IN  <<q * pl.area_gross_m2, chk[2]>>
                 ELSE <<0, "WARNING: " \o chk[2]>>

\* The end-bearing part of total_capacity_layered: <<end_bearing_kN, status>>.
EndBearing(prof, pl, depth_m, for_tension) ==
    LET ti == get_layer_at_depth(prof, depth_m)
    IN  IF for_tension \/ ti = 0 THEN <<0, "N/A">>
        ELSE LET chk == check_penetration_requirement(depth_m, pl, prof[ti])
             IN  IF chk[1]
                 THEN LET q == IF prof[ti].soil_type \in {"clay", "silt"}
                               THEN end_bearing_clay(depth_m, prof, pl)
                               ELSE end_bearing_sand(depth_m, prof, pl)
                      IN  <<q * pl.area_gross_m2, chk[2]>>
                 ELSE <<0, "WARNING: " \o chk[2]>>

\* A faulty variant of total_capacity_layered, reporting the end bearing
\* without the resistance factor.
total_capacity_unfactored_bearing(prof, pl, depth_m, loading_type, resistance_factor) ==
    IF depth_m <= 0
    THEN [total_capacity_kN |-> 0, shaft_friction_kN |-> 0, end_bearing_kN |-> 0,
          layer_contributions |-> <<>>, penetration_status |-> "Invalid depth",
          applied_resistance_factor |-> 20]
    ELSE LET for_tension == (loading_type = "tension")
             Report(acc, eb, rf) ==
                 LET total_friction_kN == acc.total
                     layer_contributions == acc.contributions
                     end_bearing_kN == eb[1]
                 IN  [total_capacity_kN |-> (total_friction_kN + end_bearing_kN) * rf,
                      shaft_friction_kN |-> total_friction_kN * rf,
                      end_bearing_kN |-> end_bearing_kN * 20,
                      layer_contributions |-> layer_contributions,
                      penetration_status |-> eb[2],
                      applied_resistance_factor |-> rf]
         IN  Report(FrictionLoop(prof, pl, 0, ArangeLen(depth_m, DzFriction) - 1,
                                 for_tension),
                    EndBearing(prof, pl, depth_m, for_tension),
                    IF resistance_factor = None
                    THEN DefaultResistanceFactor(pl, for_tension)
                    ELSE resistance_factor)

\* AxialCapacity.total_capacity_layered
total_capacity_layered(prof, pl, depth_m, loading_type, resistance_factor) ==
    IF depth_m <= 0
    THEN [total_capacity_kN |-> 0, shaft_friction_kN |-> 0, end_bearing_kN |-> 0,
          layer_contributions |-> <<>>, penetration_status |-> "Invalid depth",
          applied_resistance_factor |-> 20]
    ELSE LET for_tension == (loading_type = "tension")
             Report(acc, eb, rf) ==
                 LET total_friction_kN == acc.total
                     layer_contributions == acc.contributions
                     end_bearing_kN == eb[1]
                 IN  [total_capacity_kN |-> (total_friction_kN + end_bearing_kN) * rf,
                      shaft_friction_kN |-> total_friction_kN * rf,
                      end_bearing_kN |-> end_bearing_kN * rf,
                      layer_contributions |-> layer_contributions,
                      penetration_status |-> eb[2],
                      applied_resistance_factor |-> rf]
         IN  Report(FrictionLoop(prof, pl, 0, ArangeLen(depth_m, DzFriction) - 1,
                                 for_tension),
                    EndBearing(prof, pl, depth_m, for_tension),
                    IF resistance_factor = None
                    THEN DefaultResistanceFactor(pl, for_tension)
                    ELSE resistance_factor)

\* result['shaft_friction_kN'] / (pi D z + 0.001) of compute_capacity_profile,
\* in 1/40000 kPa.  The addend 0.001 is 1/39 of the model's unit of pi D z.
UnitFrictionKPa(shaft, divisor) ==
    195 * (shaft \div divisor) + (195 * (shaft % divisor)) \div divisor

\* One row of compute_capacity_profile, at depth z, from the result of
\* total_capacity_layered there.  end_bearing_kPa is in 1/40000 kPa.
CapacityRow(prof, pl, z, li, result) ==
    [depth_m |-> z,
     layer |-> IF li # 0 THEN prof[li].name ELSE "N/A",
     soil_type |-> IF li # 0 THEN prof[li].soil_type ELSE "N/A",
     unit_friction_kPa |->
         UnitFrictionKPa(result.shaft_friction_kN, 39 * pl.diameter_m * z + 1),
     cumulative_friction_kN |-> result.shaft_friction_kN,
     end_bearing_kPa |-> IF pl.area_gross_m2 > 0
                         THEN result.end_bearing_kN \div pl.area_gross_m2 ELSE 0,
     total_capacity_kN |-> result.total_capacity_kN,
     penetration_status |-> result.penetration_status,
     resistance_factor |-> result.applied_resistance_factor]

\* AxialCapacity.compute_capacity_profile: one row per depth of
\* np.arange(0, max_depth_m + dz, dz).
compute_capacity_profile(prof, pl, max_depth_m, dz, loading_type, resistance_factor) ==
    [k \in 1..ArangeLen(max_depth_m + dz, dz) |->
        CapacityRow(prof, pl, (k - 1) * dz, get_layer_at_depth(prof, (k - 1) * dz),
                    total_capacity_layered(prof, pl, (k - 1) * dz, loading_type,
                                           resistance_factor))]

-----------------------------------------------------------------------------
(* Load-transfer curves and their discretization                           *)

\* np.inf
Inf == 2000000000

\* A curve is a sequence of points [x, y]: x the displacement, y the
\* resistance.
Abs(x) == IF x < 0 THEN -x ELSE x

RECURSIVE MaxOrdinate(_, _)
MaxOrdinate(curve, i) ==
    IF i > Len(curve) THEN 0
    ELSE IF i = Len(curve) THEN curve[i].y
    ELSE Max(curve[i].y, MaxOrdinate(curve, i + 1))

\* A faulty variant of ArgMinRatio, giving the last index of the smallest
\* distance.
ArgMinRatioLast(curve, num, den) ==
    LET y_max == MaxOrdinate(curve, 1)
        dist(i) == Abs(den * curve[i].y - num * y_max)
    IN  CHOOSE i \in 1..Len(curve) :
            /\ \A j \in 1..Len(curve) : dist(i) <= dist(j)
            /\ \A j \in (i + 1)..Len(curve) : dist(j) > dist(i)

\* np.argmin(np.abs(y_full - num / den * y_max)): the first index of the
\* smallest distance.
ArgMinRatio(curve, num, den) ==
    LET y_max == MaxOrdinate(curve, 1)
        dist(i) == Abs(den * curve[i].y - num * y_max)
    IN  CHOOSE i \in 1..Len(curve) :
            /\ \A j \in 1..Len(curve) : dist(i) <= dist(j)
            /\ \A j \in 1..(i - 1) : dist(j) > dist(i)

\* x * 1000 (m to mm); an infinite displacement stays infinite.
ToMillimetres(x) == IF x = Inf THEN Inf ELSE x * 1000

\* A faulty variant of discretize_tz_curve_5points, marking the points of an
\* empty curve as undefined.
discretize_tz_empty_as_nan(curve) ==
    IF Len(curve) = 0 THEN [i \in 1..5 |-> [z |-> NaN, t |-> NaN]]
    ELSE [i \in 1..5 |->
            LET idx == ArgMinRatio(curve, i - 1, 4)
            IN  [z |-> ToMillimetres(curve[idx].x), t |-> curve[idx].y \div 1000]]

\* discretize_tz_curve_5points(z_full, t_full): points 1..5 as [z, t], for the
\* target ratios 0, 0.25, 0.50, 0.75, 1.0; all zero for an empty curve.
discretize_tz_curve_5points(curve) ==
    IF Len(curve) = 0 THEN [i \in 1..5 |-> [z |-> 0, t |-> 0]]
    ELSE [i \in 1..5 |->
            LET idx == ArgMinRatio(curve, i - 1, 4)
            IN  [z |-> ToMillimetres(curve[idx].x), t |-> curve[idx].y \div 1000]]

\* discretize_qz_curve_5points(z_full, Q_full): points 1..5 as [z, q].
discretize_qz_curve_5points(curve) ==
    IF Len(curve) = 0 THEN [i \in 1..5 |-> [z |-> 0, q |-> 0]]
    ELSE [i \in 1..5 |->
            LET idx == ArgMinRatio(curve, i - 1, 4)
            IN  [z |-> ToMillimetres(curve[idx].x), q |-> curve[idx].y \div 1000]]

\* min(z_ratio * z_peak, 0.5 m) of the t-z curves: z_ratio in 1/100, z_peak =
\* 0.01 D, so that the displacement is in units of 0.025 mm and 0.5 m = 20000.
TzDisplacement(z_ratio, pl) ==
    IF z_ratio = Inf THEN 20000 ELSE Min(z_ratio * pl.diameter_m, 20000)

\* tz_curve_clay with a clay that carries no friction in tension.
tz_curve_clay_no_tension(depth_m, prof, pl, for_tension) ==
    LET t_max == IF for_tension THEN 0
                 ELSE clay_shaft_friction(depth_m, prof, pl, for_tension)
        z_ratios == <<0, 16, 31, 57, 80, 100, 200, Inf>>
        t_ratios == <<0, 30, 50, 75, 90, 100, 80, 80>>
    IN  IF t_max <= 0 THEN <<>>
        ELSE [i \in 1..8 |-> [x |-> TzDisplacement(z_ratios[i], pl),
                              y |-> t_ratios[i] * t_max]]

\* LoadDisplacementTables.tz_curve_clay: resistance in 1/200000 kPa.
tz_curve_clay(depth_m, prof, pl, for_tension) ==
    LET t_max == clay_shaft_friction(depth_m, prof, pl, for_tension)
        z_ratios == <<0, 16, 31, 57, 80, 100, 200, Inf>>
        t_ratios == <<0, 30, 50, 75, 90, 100, 80, 80>>
    IN  IF t_max <= 0 THEN <<>>
        ELSE [i \in 1..8 |-> [x |-> TzDisplacement(z_ratios[i], pl),
                              y |-> t_ratios[i] * t_max]]

\* tz_curve_sand with the softening shape of the clay curve.
tz_curve_sand_softening(depth_m, prof, pl, for_tension) ==
    LET t_max == sand_shaft_friction(depth_m, prof, pl, for_tension)
        z_ratios == <<0, 16, 31, 57, 80, 100, 200, Inf>>
        t_ratios == <<0, 30, 50, 75, 90, 100, 80, 80>>
    IN  IF t_max <= 0 THEN <<>>
        ELSE [i \in 1..8 |-> [x |-> TzDisplacement(z_ratios[i], pl),
                              y |-> t_ratios[i] * t_max]]

\* LoadDisplacementTables.tz_curve_sand
tz_curve_sand(depth_m, prof, pl, for_tension) ==
    LET t_max == sand_shaft_friction(depth_m, prof, pl, for_tension)
        z_ratios == <<0, 16, 31, 57, 80, 100, Inf>>
        t_ratios == <<0, 30, 50, 75, 90, 100, 100>>
    IN  IF t_max <= 0 THEN <<>>
        ELSE [i \in 1..7 |-> [x |-> TzDisplacement(z_ratios[i], pl),
                              y |-> t_ratios[i] * t_max]]

\* LoadDisplacementTables.qz_curve: displacement in units of 0.25 mm
\* (z_D_ratio in 1/1000 times D), resistance in raw force units (Q_ratio in
\* 1/20 of Q_p).
qz_curve(depth_m, prof, pl) ==
    LET li == get_layer_at_depth(prof, depth_m)
        q == IF prof[li].soil_type \in {"clay", "silt"}
             THEN end_bearing_clay(depth_m, prof, pl)
             ELSE end_bearing_sand(depth_m, prof, pl)
        Q_p == q * pl.area_gross_m2
        z_D_ratios == <<0, 2, 13, 42, 73, 100, Inf>>
        Q_ratios == <<0, 5, 10, 15, 18, 20, 20>>
    IN  IF li = 0 THEN <<>>
        ELSE IF Q_p <= 0 THEN <<>>
        ELSE [i \in 1..7 |->
                [x |-> IF z_D_ratios[i] = Inf THEN Inf
                       ELSE z_D_ratios[i] * pl.diameter_m,
                 y |-> Q_ratios[i] * (Q_p \div 20)]]

\* The rows generate_tz_table adds for one depth: a compression row 'c' and a
\* tension row 't', each only when its curve is not empty.
TzRows(prof, pl, depth) ==
    LET li == get_layer_at_depth(prof, depth)
        curve(for_tension) ==
            IF prof[li].soil_type \in {"clay", "silt"}
            THEN tz_curve_clay(depth, prof, pl, for_tension)
            ELSE tz_curve_sand(depth, prof, pl, for_tension)
        row(for_tension, kind) ==
            IF Len(curve(for_tension)) > 0
            THEN <<[Depth |-> depth, Soil_type |-> kind,
                    points |-> discretize_tz_curve_5points(curve(for_tension))]>>
            ELSE <<>>
    IN  IF li = 0 THEN <<>>
        ELSE row(FALSE, "c") \o row(TRUE, "t")

\* LoadDisplacementTables.generate_tz_table
RECURSIVE generate_tz_table(_, _, _)
generate_tz_table(prof, pl, depths_m) ==
    IF depths_m = <<>> THEN <<>>
    ELSE TzRows(prof, pl, Head(depths_m)) \o generate_tz_table(prof, pl, Tail(depths_m))

\* LoadDisplacementTables.generate_qz_table.  With a non-empty curve the
\* function reads PileType.CLOSED_END, which PileType does not define: the
\* read raises AttributeError whatever the pile type.
generate_qz_table(prof, pl, tip_depth_m) ==
    IF tip_depth_m <= 0 THEN [raised |-> "", rows |-> <<>>]
    ELSE IF Len(qz_curve(tip_depth_m, prof, pl)) = 0 THEN [raised |-> "", rows |-> <<>>]
    ELSE [raised |-> "AttributeError", rows |-> <<>>]

\* p-y curves: displacement in 1/152000 m (1.0 m = 152000), resistance in
\* 1/8000 kN/m.

\* min(y_ratio * epsilon_c * D, 1.0 m): y_ratio in 1/10, epsilon_c in 1/1000.
PyDisplacement(y_ratio, epsilon_c, pl) ==
    IF y_ratio = Inf THEN 152000
    ELSE Min((19 * y_ratio * epsilon_c * pl.diameter_m) \div 5, 152000)

\* p_ratios * pu_D and min(y_ratios * y_peak, 1.0): p_ratios in 1/100, pu_D in
\* 1/80 kN/m.
PyClayCurve(p_ratios, y_ratios, pu_D, epsilon_c, pl) ==
    [i \in 1..Len(p_ratios) |->
        [x |-> PyDisplacement(y_ratios[i], epsilon_c, pl), y |-> p_ratios[i] * pu_D]]

\* A faulty variant of matlock_soft_clay, without the upper limit of 100 kPa
\* on su.
matlock_any_strength(depth_m, prof, pl, analysis_type) ==
    LET su == SoilProfile_get_property_at_depth(prof, depth_m, "su")
        gamma_prime == SoilProfile_get_property_at_depth(prof, depth_m, "gamma_prime")
        Curve(above_z_R) ==
            PyClayCurve(IF analysis_type = "static" \/ ~above_z_R
                        THEN <<0, 23, 33, 50, 72, 100, 100>>
                        ELSE <<0, 23, 33, 50, 72, 72>>,
                        IF analysis_type = "static" \/ ~above_z_R
                        THEN <<0, 1, 3, 10, 30, 80, Inf>>
                        ELSE <<0, 1, 3, 10, 30, Inf>>,
                        IF above_z_R
                        THEN 60 * su * pl.diameter_m + gamma_prime * depth_m * pl.diameter_m
                                + 2 * su * depth_m
                        ELSE 180 * su * pl.diameter_m,
                        20, pl)
    IN  IF ~IsFinite(su) \/ su <= 0 THEN <<>>
        ELSE Curve(IsFinite(gamma_prime)
                     /\ depth_m * (pl.diameter_m * gamma_prime + 2 * su)
                           <= 120 * pl.diameter_m * su)

\* A faulty variant of matlock_soft_clay, whose static curve falls back to the
\* residual 0.72 pu after the peak.
matlock_with_residual(depth_m, prof, pl, analysis_type) ==
    LET su == SoilProfile_get_property_at_depth(prof, depth_m, "su")
        gamma_prime == SoilProfile_get_property_at_depth(prof, depth_m, "gamma_prime")
        Curve(above_z_R) ==
            PyClayCurve(IF analysis_type = "static" \/ ~above_z_R
                        THEN <<0, 23, 33, 50, 72, 100, 72>>
                        ELSE <<0, 23, 33, 50, 72, 72>>,
                        IF analysis_type = "static" \/ ~above_z_R
                        THEN <<0, 1, 3, 10, 30, 80, Inf>>
                        ELSE <<0, 1, 3, 10, 30, Inf>>,
                        IF above_z_R
                        THEN 60 * su * pl.diameter_m + gamma_prime * depth_m * pl.diameter_m
                                + 2 * su * depth_m
                        ELSE 180 * su * pl.diameter_m,
                        20, pl)
    IN  IF ~IsFinite(su) \/ su <= 0 \/ su > 100 THEN <<>>
        ELSE Curve(IsFinite(gamma_prime)
                     /\ depth_m * (pl.diameter_m * gamma_prime + 2 * su)
                           <= 120 * pl.diameter_m * su)

\* A faulty variant of matlock_soft_clay, with the near-surface formula at
\* every depth.
matlock_near_surface_everywhere(depth_m, prof, pl, analysis_type) ==
    LET su == SoilProfile_get_property_at_depth(prof, depth_m, "su")
        gamma_prime == SoilProfile_get_property_at_depth(prof, depth_m, "gamma_prime")
        Curve(above_z_R) ==
            PyClayCurve(IF analysis_type = "static" \/ ~above_z_R
                        THEN <<0, 23, 33, 50, 72, 100, 100>>
                        ELSE <<0, 23, 33, 50, 72, 72>>,
                        IF analysis_type = "static" \/ ~above_z_R
                        THEN <<0, 1, 3, 10, 30, 80, Inf>>
                        ELSE <<0, 1, 3, 10, 30, Inf>>,
                        IF IsFinite(gamma_prime)
                        THEN 60 * su * pl.diameter_m + gamma_prime * depth_m * pl.diameter_m
                                + 2 * su * depth_m
                        ELSE 180 * su * pl.diameter_m,
                        20, pl)
    IN  IF ~IsFinite(su) \/ su <= 0 \/ su > 100 THEN <<>>
        ELSE Curve(IsFinite(gamma_prime)
                     /\ depth_m * (pl.diameter_m * gamma_prime + 2 * su)
                           <= 120 * pl.diameter_m * su)

\* LateralCapacity.matlock_soft_clay.  J = 0.5; depth_m <= z_R = 6 D / (D
\* gamma' / su + J) is decided on integers as depth (D gamma' + su / 2) <= 6 D
\* su; with an undefined gamma' the comparison is false (z_R is NaN).
matlock_soft_clay(depth_m, prof, pl, analysis_type) ==
    LET su == SoilProfile_get_property_at_depth(prof, depth_m, "su")
        gamma_prime == SoilProfile_get_property_at_depth(prof, depth_m, "gamma_prime")
        Curve(above_z_R) ==
            PyClayCurve(IF analysis_type = "static" \/ ~above_z_R
                        THEN <<0, 23, 33, 50, 72, 100, 100>>
                        ELSE <<0, 23, 33, 50, 72, 72>>,
                        IF analysis_type = "static" \/ ~above_z_R
                        THEN <<0, 1, 3, 10, 30, 80, Inf>>
                        ELSE <<0, 1, 3, 10, 30, Inf>>,
                        IF above_z_R
                        THEN 60 * su * pl.diameter_m + gamma_prime * depth_m * pl.diameter_m
                                + 2 * su * depth_m
                        ELSE 180 * su * pl.diameter_m,
                        20, pl)
    IN  IF ~IsFinite(su) \/ su <= 0 \/ su > 100 THEN <<>>
        ELSE Curve(IsFinite(gamma_prime)
                     /\ depth_m * (pl.diameter_m * gamma_prime + 2 * su)
                           <= 120 * pl.diameter_m * su)

\* LateralCapacity.reese_stiff_clay: pu_D = min(3 + 0.3 depth / D, 9) su D.
reese_stiff_clay(depth_m, prof, pl, analysis_type) ==
    LET su == SoilProfile_get_property_at_depth(prof, depth_m, "su")
        pu_D == Min(60 * su * pl.diameter_m + (6 * depth_m * su) \div 5,
                    180 * su * pl.diameter_m)
    IN  IF ~IsFinite(su) \/ su <= 100 THEN <<>>
        ELSE IF analysis_type = "static"
        THEN PyClayCurve(<<0, 25, 50, 75, 95, 95>>, <<0, 3, 10, 30, 100, Inf>>,
                         pu_D, 15, pl)
        ELSE PyClayCurve(<<0, 25, 50, 50>>, <<0, 3, 10, Inf>>, pu_D, 15, pl)

\* LateralCapacity.calculate_C_coefficients, in 1/1000, for the friction
\* angles of Table 5: C1 = Kp, C2 = (K0 + Ka) tan(phi), C3 = Kp tan(phi).
calculate_C_coefficients(phi_prime) ==
    CASE phi_prime = 25 -> <<2464, 376, 1149>>
      [] phi_prime = 30 -> <<3000, 423, 1732>>
      [] phi_prime = 35 -> <<3690, 470, 2584>>
      [] phi_prime = 40 -> <<4599, 518, 3859>>

\* k_values of sand_py_curve, times 1000 / 100: k in units of 100 kPa/m.
SandK(phi_prime) ==
    CASE phi_prime = 25 -> 54
      [] phi_prime = 30 -> 110
      [] phi_prime = 35 -> 220
      [] phi_prime = 40 -> 450

\* np.tanh in 1/1000, for an argument in 1/10, 0..40.
Tanh ==
    <<0, 100, 197, 291, 380, 462, 537, 604, 664, 716, 762, 800, 834, 862, 885,
      905, 922, 935, 947, 956, 964, 970, 976, 980, 984, 987, 989, 991, 993, 994,
      995, 996, 997, 997, 998, 998, 999, 999, 999, 999, 999>>

\* a * b / 1000, floored, without an intermediate product beyond 32 bits.
Thousandths(a, b) == a * (b \div 1000) + (a * (b % 1000)) \div 1000

\* One ordinate A pu tanh(k z y / (A pu + 0.01)) of sand_py_curve at y =
\* (i - 1) / 19 m, from A_pu = A pu and x = the argument of tanh in 1/10.  In
\* floating point tanh(x) is 1.0 from x = 19.1 on, and below that the
\* ordinates increase strictly with y; beyond x = 4 the model keeps that order
\* by holding sample i at least 20 - i units below A pu.
SandOrdinate(A_pu, x, i) ==
    IF x >= 191 THEN A_pu
    ELSE IF x > 40 THEN Max(0, A_pu - (20 - i))
    ELSE Thousandths(Tanh[x + 1], A_pu)

\* LateralCapacity.sand_py_curve.  gamma_prime is not tested: an undefined
\* value makes pu, and with it every ordinate, NaN.
sand_py_curve(depth_m, prof, pl, analysis_type) ==
    LET phi_prime == SoilProfile_get_property_at_depth(prof, depth_m, "phi_prime")
        gamma_prime == SoilProfile_get_property_at_depth(prof, depth_m, "gamma_prime")
        A == IF analysis_type = "cyclic" THEN 900
             ELSE Max(3000 - (160 * depth_m) \div pl.diameter_m, 900)
        Curve(C, k) ==
            LET pu_shallow == (((C[1] * depth_m + 5 * C[2] * pl.diameter_m) * gamma_prime)
                                  \div 50) * depth_m
                pu_deep == (C[3] * pl.diameter_m * gamma_prime * depth_m) \div 10
                Points(A_pu) ==
                    [i \in 1..20 |->
                        [x |-> 8000 * (i - 1),
                         y |-> SandOrdinate(A_pu,
                                   (k * depth_m * (i - 1) * 400)
                                       \div Max((19 * (A_pu + 80)) \div 1000, 1),
                                   i)]]
            IN  Points(Thousandths(A, Min(pu_shallow, pu_deep)))
    IN  IF ~IsFinite(phi_prime) \/ phi_prime <= 0 THEN <<>>
        ELSE IF IsNaN(gamma_prime) THEN [i \in 1..20 |-> [x |-> 8000 * (i - 1), y |-> NaN]]
        ELSE Curve(calculate_C_coefficients(phi_prime), SandK(phi_prime))

\* discretize_py_curve_4points(y_full, p_full): points 1..4 as [p, y] for the
\* target ratios 0.0, 0.33, 0.67, 1.0; all zero for an empty curve.  With a
\* NaN ordinate p_max and every distance are NaN, and np.argmin gives the first
\* sample.
discretize_py_curve_4points(curve) ==
    LET target_ratios == <<0, 33, 67, 100>>
    IN  IF Len(curve) = 0 THEN [i \in 1..4 |-> [p |-> 0, y |-> 0]]
        ELSE [i \in 1..4 |->
                LET idx == IF \E j \in 1..Len(curve) : IsNaN(curve[j].y) THEN 1
                           ELSE ArgMinRatio(curve, target_ratios[i], 100)
                IN  [p |-> curve[idx].y, y |-> ToMillimetres(curve[idx].x)]]

\* The generator generate_py_table routes a depth to ("" when the depth is
\* skipped before any generator is called).
PyGenerator(prof, depth) ==
    LET li == get_layer_at_depth(prof, depth)
        su == SoilProfile_get_property_at_depth(prof, depth, "su")
    IN  IF li = 0 THEN ""
        ELSE IF prof[li].soil_type \in {"clay", "silt"}
        THEN IF IsFinite(su) /\ su <= 100 THEN "matlock_soft_clay"
             ELSE IF IsFinite(su) /\ su > 100 THEN "reese_stiff_clay"
             ELSE ""
        ELSE "sand_py_curve"

\* The curve of a generator.
PyCurve(gen, depth, prof, pl, analysis_type) ==
    CASE gen = "matlock_soft_clay" -> matlock_soft_clay(depth, prof, pl, analysis_type)
      [] gen = "reese_stiff_clay" -> reese_stiff_clay(depth, prof, pl, analysis_type)
      [] gen = "sand_py_curve" -> sand_py_curve(depth, prof, pl, analysis_type)
      [] OTHER -> <<>>

\* The rows generate_py_table adds for one depth: the depth, the soil type,
\* the generator the depth is routed to and the four points of its curve; no
\* row when the generator returns an empty pair.
PyRows(prof, pl, depth, analysis_type) ==
    LET Row(gen, curve) ==
            IF Len(curve) = 0 THEN <<>>
            ELSE <<[Depth |-> depth,
                    Soil |-> prof[get_layer_at_depth(prof, depth)].soil_type,
                    generator |-> gen,
                    points |-> discretize_py_curve_4points(curve)]>>
        Routed(gen) == Row(gen, PyCurve(gen, depth, prof, pl, analysis_type))
    IN  Routed(PyGenerator(prof, depth))

\* LateralCapacity.generate_py_table
RECURSIVE generate_py_table(_, _, _, _)
generate_py_table(prof, pl, depths_m, analysis_type) ==
    IF depths_m = <<>> THEN <<>>
    ELSE PyRows(prof, pl, Head(depths_m), analysis_type)
            \o generate_py_table(prof, pl, Tail(depths_m), analysis_type)

\* np.arange(5, max_depth_m, 5).tolist(), in ticks
DefaultCurveDepths(max_depth_m) ==
    [k \in 1..ArangeLen(max_depth_m - 100, 100) |-> 100 * k]

-----------------------------------------------------------------------------
(* Inputs                                                                  *)

\* Depths are enumerated up to these bounds (ticks of 0.05 m).
MaxTip == 50
MaxLayerBot == 60
DeepBot == 1100

\* Layers as a caller builds them; the curves hold absolute depths.  The
\* curves of "varclay" are given out of order, as a caller may; its su curve
\* has a step at 1 m (two points at one depth).
Template(kind, top, bot) ==
    CASE kind = "clay" ->
           SoilLayer("Clay", "clay", top, bot, <<SoilPoint(0, 7)>>,
                     <<SoilPoint(0, 50)>>, <<>>, <<>>, 50)
      [] kind = "softclay" ->
           SoilLayer("Soft clay", "clay", top, bot, <<SoilPoint(0, 7)>>,
                     <<SoilPoint(0, 3)>>, <<>>, <<>>, 50)
      [] kind = "weakclay" ->
           SoilLayer("Weak clay", "clay", top, bot, <<SoilPoint(0, 6)>>,
                     <<SoilPoint(0, 3)>>, <<>>, <<>>, 50)
      [] kind = "stepclay" ->
           SoilLayer("Step clay", "clay", top, bot, <<SoilPoint(0, 7)>>,
                     <<SoilPoint(5, 10), SoilPoint(5, 20)>>, <<>>,
                     <<SoilPoint(5, 1000), SoilPoint(5, 2000), SoilPoint(20, 2300)>>, 50)
      [] kind = "varclay" ->
           SoilLayer("Var clay", "clay", top, bot, <<SoilPoint(0, 6)>>,
                     <<SoilPoint(40, 84), SoilPoint(20, 44), SoilPoint(0, 4), SoilPoint(20, 64)>>,
                     <<>>, <<SoilPoint(30, 2500), SoilPoint(0, 1000), SoilPoint(30, 3000)>>, 50)
      [] kind = "stiffsilt" ->
           SoilLayer("Stiff silt", "silt", top, bot, <<SoilPoint(0, 9)>>,
                     <<SoilPoint(0, 150)>>, <<>>, <<>>, 50)
      [] kind = "sand" ->
           SoilLayer("Dense sand", "sand", top, bot, <<SoilPoint(0, 9)>>,
                     <<>>, <<SoilPoint(0, 35)>>, <<>>, 75)
      [] kind = "loosesand" ->
           SoilLayer("Loose sand", "sand", top, bot, <<SoilPoint(0, 8)>>,
                     <<>>, <<SoilPoint(0, 30)>>, <<>>, 25)
      [] kind = "sandsilt" ->
           SoilLayer("Sand-silt", "sand-silt", top, bot, <<SoilPoint(0, 8)>>,
                     <<>>, <<SoilPoint(0, 30)>>, <<>>, 50)
      [] kind = "rock" ->
           SoilLayer("Rock", "rock", top, bot, <<>>, <<>>, <<>>, <<>>, 50)
      [] kind = "firmclay" ->
           SoilLayer("Firm clay", "clay", top, bot, <<SoilPoint(0, 7)>>,
                     <<SoilPoint(0, 100)>>, <<>>, <<>>, 50)
      [] kind = "bareclay" ->
           SoilLayer("Bare clay", "clay", top, bot, <<>>,
                     <<SoilPoint(0, 50)>>, <<>>, <<>>, 50)
      [] kind = "baresand" ->
           SoilLayer("Bare sand", "sand", top, bot, <<>>,
                     <<>>, <<SoilPoint(0, 35)>>, <<>>, 75)

UpperKinds == {"clay", "varclay", "sand", "rock"}
LowerKinds == {"softclay", "stiffsilt", "sand", "sandsilt", "loosesand", "rock"}

\* Two layers, the lower one starting gap ticks below the upper one.
TwoLayers(upper, lower, gap) ==
    <<Template(upper, 0, 10), Template(lower, 10 + gap, MaxLayerBot)>>

\* One deep layer of sand, unit weight 10, for stresses in the range of the
\* limits of API Table 1.
DeepLayer(soil_type, dr_pct, phi) ==
    <<SoilLayer("Deep", soil_type, 0, DeepBot, <<SoilPoint(0, 10)>>, <<>>,
                <<SoilPoint(0, phi)>>, <<>>, dr_pct)>>

DeepProfiles ==
    {DeepLayer(st, dr, 35) : st \in {"sand", "sand-silt"}, dr \in {25, 50, 75, 90}}

\* The uniform sand site: one 20 m layer of dense sand, friction angle 35,
\* unit weight 9.
ScenarioProfile ==
    <<SoilLayer("Sand", "sand", 0, 400, <<SoilPoint(0, 9)>>, <<>>,
                <<SoilPoint(0, 35)>>, <<>>, 75)>>

\* A 1.5 m open-ended driven pipe pile embedded 15 m.
ScenarioPile == PileProperties(6, 300, "driven_pipe_open")

PileTypes == {"driven_pipe_open", "driven_pipe_closed", "drilled_shaft", "grouted_pile"}

SmallProfiles ==
    {TwoLayers(u, l, g) : u \in UpperKinds, l \in LowerKinds, g \in {0, 5}}

\* Profiles with a clay of su exactly 100 kPa, with layers that lack the
\* unit-weight curve ("bare": a clay with only su, a sand with only phi'),
\* a uniform clay of 10 m, and a weak clay (unit weight 6, su 3) in which the
\* transition depth z_R of a 0.5 m pile is 2 m, exact in floating point:
\* 6 * 0.5 / (0.5 * 6 / 3 + 0.5); and a clay whose su points all lie at one
\* depth and whose E50 curve starts with two points at one depth ("step").
SpecialProfiles ==
    {TwoLayers("firmclay", "stiffsilt", 0), TwoLayers("bareclay", "sand", 0),
     TwoLayers("baresand", "sand", 5), TwoLayers("sand", "baresand", 0),
     <<Template("clay", 0, 200)>>, TwoLayers("sand", "weakclay", 0),
     TwoLayers("stepclay", "sand", 0)}

\* 0.5 m piles embedded 2 m.
SmallPile(pile_type) == PileProperties(2, 40, pile_type)

\* Every small profile with the open driven pile, two of them with every pile
\* type, the deep layers, and the uniform sand site with its pile.
Cases ==
    ((SmallProfiles \cup SpecialProfiles) \X {SmallPile("driven_pipe_open")})
      \cup ({TwoLayers("clay", "sand", 0), TwoLayers("sand", "stiffsilt", 5)}
               \X {SmallPile(t) : t \in PileTypes})
      \cup (DeepProfiles \X {SmallPile("driven_pipe_open")})
      \cup {<<ScenarioProfile, ScenarioPile>>}

TipDepths == {-5} \cup {5 * k : k \in 0..(MaxTip \div 5)}
DeepDepths == {500, 600, 1000}

\* The depths a caller probes: down to the tip bound, and deeper ones in a
\* profile that reaches them.
ProbeDepths(prof) ==
    TipDepths \cup {d \in DeepDepths : \E i \in 1..Len(prof) : d <= prof[i].depth_bot_m}
ExplicitFactors == {20, 16}

\* The depths a caller probes with a p-y generator: down to the tip bound, and
\* 5 m in a profile that reaches it.
PyDepths(prof) ==
    TipDepths \cup {d \in {100} : \E i \in 1..Len(prof) : d < prof[i].depth_bot_m}

\* The curves handed to the discretizers: up to MaxSamples samples, sample i
\* at displacement 3 i, with ordinates that are multiples of 1000.
MaxSamples == 4
Ordinates == {0, 97000, 102000, 150000, 300000}
InputCurves ==
    UNION {{[i \in 1..n |-> [x |-> 3 * i, y |-> ys[i]]] : ys \in [1..n -> Ordinates]}
              : n \in 0..MaxSamples}

\* The depths a caller looks a layer up at: down to the tip bound, and the
\* top and the bottom of every layer.
BoundaryDepths(prof) ==
    TipDepths \cup {prof[i].depth_top_m : i \in 1..Len(prof)}
              \cup {prof[i].depth_bot_m : i \in 1..Len(prof)}

\* The maximum depths and the depth increments a caller passes to
\* compute_capacity_profile: 0, 0.5, 1.25 and 2 m in steps of 0.25, 0.5 and
\* 0.75 m.
SweepDepths == {0, 10, 25, 40}
SweepSteps == {5, 10, 15}

\* The arguments a caller passes to the constructors, malformed ones among
\* them: negative depths and values, layers of zero or negative thickness,
\* curves out of depth order, piles of zero or negative diameter.
PointDepths == {-5, 0, 20}
PointValues == {-5, 0, 50}
LayerTops == {0, 10}
LayerBots == {0, 10, 20}
LayerCurves ==
    {<<>>, <<SoilPoint(0, 7)>>, <<SoilPoint(20, 9), SoilPoint(0, 7)>>,
     <<SoilPoint(40, 84), SoilPoint(20, 44), SoilPoint(0, 4), SoilPoint(20, 64)>>}
PileDiameters == {-2, 0, 2, 6}
PileWalls == {0, 1}
PileLengths == {0, 40, 300}

\* The depth lists a caller passes to generate_py_table.
PyDepthLists == {<<5, 20, 35>>, <<10, 15, 50, 70>>, <<0, 5>>}

\* The depth lists a caller passes to generate_tz_table: the same, and one
\* that is not in increasing order.
TzDepthLists == PyDepthLists \cup {<<35, 5, 70, 20>>}

-----------------------------------------------------------------------------
(* State machine                                                           *)

NoCall == [op |-> "none"]

NoResults ==
    [capacity_compression_df |-> <<>>, capacity_tension_df |-> <<>>,
     tz_table |-> <<>>, qz_table |-> <<>>, py_table |-> <<>>]

NoArgs == [max_depth_m |-> 0]

\* The analysis depths a caller asks for: 2 m, and 15 m and 16 m at the uniform
\* sand site.
MaxDepths(prof) == {40} \cup (IF prof = ScenarioProfile THEN {300, 320} ELSE {})

\* The options of run_complete_analysis a caller passes; curve_depths is
\* tz_depths and py_depths (None: the default sampling).
AnalysisOptions ==
    {[use_lrfd |-> TRUE, curve_depths |-> <<None>>, analysis_type |-> "static"],
     [use_lrfd |-> FALSE, curve_depths |-> <<20, 35>>, analysis_type |-> "cyclic"],
     [use_lrfd |-> TRUE, curve_depths |-> <<5, 70>>, analysis_type |-> "static"]}

\* The options passed with an analysis depth: beyond 2 m the factored
\* (default) analysis only, whose forces stay within 32-bit integers.
OptionsFor(max_depth_m) ==
    IF max_depth_m > 40 THEN {o \in AnalysisOptions : o.use_lrfd} ELSE AnalysisOptions

Init ==
    /\ \E c \in Cases : profile = c[1] /\ pile = c[2]
    /\ pc = "idle"
    /\ args = NoArgs
    /\ results = NoResults
    /\ call = NoCall

\* A caller invokes AxialCapacity.total_capacity_layered.
Call_total_capacity_layered ==
    /\ pc = "idle" /\ call = NoCall
    /\ \E d \in TipDepths, lt \in {"compression", "tension"},
          rf \in {None} \cup ExplicitFactors :
          call' = [op |-> "total_capacity_layered", depth_m |-> d, loading_type |-> lt,
                   resistance_factor |-> rf,
                   result |-> total_capacity_layered(profile, pile, d, lt, rf)]
    /\ UNCHANGED <<profile, pile, pc, args, results>>

\* A caller invokes SoilProfile.calculate_overburden_stress.
Call_calculate_overburden_stress ==
    /\ pc = "idle" /\ call = NoCall
    /\ \E d \in ProbeDepths(profile) :
          call' = [op |-> "calculate_overburden_stress", depth_m |-> d,
                   result |-> calculate_overburden_stress(profile, d)]
    /\ UNCHANGED <<profile, pile, pc, args, results>>

\* A caller invokes SoilLayer.get_property_at_depth on a layer of the profile,
\* with a depth relative to the layer top.
Call_get_property_at_depth ==
    /\ pc = "idle" /\ call = NoCall
    /\ \E li \in 1..Len(profile), d \in TipDepths,
          pn \in {"gamma_prime", "su", "phi_prime", "E50"} :
          call' = [op |-> "get_property_at_depth", layer |-> li, depth_m |-> d,
                   property_name |-> pn,
                   result |-> SoilLayer_get_property_at_depth(profile[li], d, pn)]
    /\ UNCHANGED <<profile, pile, pc, args, results>>

\* A caller invokes AxialCapacity.clay_shaft_friction.
Call_clay_shaft_friction ==
    /\ pc = "idle" /\ call = NoCall
    /\ \E d \in TipDepths, ft \in BOOLEAN :
          call' = [op |-> "clay_shaft_friction", depth_m |-> d, for_tension |-> ft,
                   result |-> clay_shaft_friction(d, profile, pile, ft)]
    /\ UNCHANGED <<profile, pile, pc, args, results>>

\* A caller invokes AxialCapacity.sand_shaft_friction.
Call_sand_shaft_friction ==
    /\ pc = "idle" /\ call = NoCall
    /\ \E d \in ProbeDepths(profile), ft \in BOOLEAN :
          call' = [op |-> "sand_shaft_friction", depth_m |-> d, for_tension |-> ft,
                   result |-> sand_shaft_friction(d, profile, pile, ft),
                   warnings |-> sand_shaft_friction_warnings(d, profile, pile)]
    /\ UNCHANGED <<profile, pile, pc, args, results>>

\* A caller invokes AxialCapacity.end_bearing_sand.
Call_end_bearing_sand ==
    /\ pc = "idle" /\ call = NoCall
    /\ \E d \in ProbeDepths(profile) :
          call' = [op |-> "end_bearing_sand", depth_m |-> d,
                   result |-> end_bearing_sand(d, profile, pile),
                   warnings |-> end_bearing_sand_warnings(d, profile, pile)]
    /\ UNCHANGED <<profile, pile, pc, args, results>>

\* A caller invokes AxialCapacity.compute_capacity_profile.
Call_compute_capacity_profile ==
    /\ pc = "idle" /\ call = NoCall
    /\ \E md \in SweepDepths, dz \in SweepSteps, lt \in {"compression", "tension"} :
          call' = [op |-> "compute_capacity_profile", max_depth_m |-> md, dz |-> dz,
                   loading_type |-> lt,
                   result |-> compute_capacity_profile(profile, pile, md, dz, lt, None)]
    /\ UNCHANGED <<profile, pile, pc, args, results>>

\* A caller constructs a SoilPoint.
Construct_SoilPoint ==
    /\ pc = "idle" /\ call = NoCall
    /\ \E d \in PointDepths, v \in PointValues :
          call' = [op |-> "SoilPoint", depth_m |-> d, value |-> v,
                   result |-> SoilPoint_post_init(d, v)]
    /\ UNCHANGED <<profile, pile, pc, args, results>>

\* A caller constructs a SoilLayer.
Construct_SoilLayer ==
    /\ pc = "idle" /\ call = NoCall
    /\ \E st \in {"clay", "sand"}, top \in LayerTops, bot \in LayerBots,
          gamma \in LayerCurves, su \in LayerCurves :
          call' = [op |-> "SoilLayer", name |-> "Layer", soil_type |-> st,
                   depth_top_m |-> top, depth_bot_m |-> bot,
                   gamma_prime |-> gamma, su |-> su, phi_prime |-> <<>>, E50 |-> <<>>,
                   relative_density_pct |-> 50,
                   result |-> SoilLayer_post_init("Layer", st, top, bot, gamma, su,
                                                  <<>>, <<>>, 50)]
    /\ UNCHANGED <<profile, pile, pc, args, results>>

\* A caller constructs a PileProperties.
Construct_PileProperties ==
    /\ pc = "idle" /\ call = NoCall
    /\ \E d \in PileDiameters, w \in PileWalls, l \in PileLengths, t \in PileTypes :
          call' = [op |-> "PileProperties", diameter_m |-> d, wall_thickness_m |-> w,
                   length_m |-> l, pile_type |-> t,
                   result |-> PileProperties_post_init(d, w, l, t)]
    /\ UNCHANGED <<profile, pile, pc, args, results>>

\* A caller invokes one of the t-z generators of LoadDisplacementTables.
Call_tz_curve ==
    /\ pc = "idle" /\ call = NoCall
    /\ \E d \in TipDepths, for_tension \in BOOLEAN :
          \/ call' = [op |-> "tz_curve_clay", depth_m |-> d, for_tension |-> for_tension,
                      result |-> tz_curve_clay(d, profile, pile, for_tension)]
          \/ call' = [op |-> "tz_curve_sand", depth_m |-> d, for_tension |-> for_tension,
                      result |-> tz_curve_sand(d, profile, pile, for_tension)]
    /\ UNCHANGED <<profile, pile, pc, args, results>>

\* A caller invokes LoadDisplacementTables.qz_curve.
Call_qz_curve ==
    /\ pc = "idle" /\ call = NoCall
    /\ \E d \in TipDepths :
          call' = [op |-> "qz_curve", depth_m |-> d,
                   result |-> qz_curve(d, profile, pile)]
    /\ UNCHANGED <<profile, pile, pc, args, results>>

\* A caller invokes LoadDisplacementTables.generate_tz_table.
Call_generate_tz_table ==
    /\ pc = "idle" /\ call = NoCall
    /\ \E ds \in TzDepthLists :
          call' = [op |-> "generate_tz_table", depths_m |-> ds,
                   result |-> generate_tz_table(profile, pile, ds)]
    /\ UNCHANGED <<profile, pile, pc, args, results>>

\* A caller invokes SoilProfile.get_layer_at_depth (result: the index of the
\* layer, 0 for None).
Call_get_layer_at_depth ==
    /\ pc = "idle" /\ call = NoCall
    /\ \E d \in BoundaryDepths(profile) :
          call' = [op |-> "get_layer_at_depth", depth_m |-> d,
                   result |-> get_layer_at_depth(profile, d)]
    /\ UNCHANGED <<profile, pile, pc, args, results>>

\* A caller invokes SoilProfile.get_property_at_depth.
Call_profile_get_property_at_depth ==
    /\ pc = "idle" /\ call = NoCall
    /\ \E d \in BoundaryDepths(profile),
          pn \in {"gamma_prime", "su", "phi_prime", "E50"} :
          call' = [op |-> "SoilProfile.get_property_at_depth", depth_m |-> d,
                   property_name |-> pn,
                   result |-> SoilProfile_get_property_at_depth(profile, d, pn)]
    /\ UNCHANGED <<profile, pile, pc, args, results>>

\* A caller invokes one of the p-y generators of LateralCapacity.
Call_py_curve ==
    /\ pc = "idle" /\ call = NoCall
    /\ \E gen \in {"matlock_soft_clay", "reese_stiff_clay", "sand_py_curve"},
          d \in PyDepths(profile), at \in {"static", "cyclic"} :
          call' = [op |-> gen, depth_m |-> d, analysis_type |-> at,
                   result |-> PyCurve(gen, d, profile, pile, at)]
    /\ UNCHANGED <<profile, pile, pc, args, results>>

\* A caller invokes LateralCapacity.generate_py_table.
Call_generate_py_table ==
    /\ pc = "idle" /\ call = NoCall
    /\ \E depths_m \in PyDepthLists, at \in {"static", "cyclic"} :
          call' = [op |-> "generate_py_table", depths_m |-> depths_m,
                   analysis_type |-> at,
                   result |-> generate_py_table(profile, pile, depths_m, at)]
    /\ UNCHANGED <<profile, pile, pc, args, results>>

\* PileDesignAnalysis.run_complete_analysis is entered.
run_complete_analysis ==
    /\ pc = "idle" /\ call = NoCall
    /\ \E md \in MaxDepths(profile) : \E o \in OptionsFor(md) :
          args' = [max_depth_m |-> md, dz |-> 10, use_lrfd |-> o.use_lrfd,
                   curve_depths |-> o.curve_depths, analysis_type |-> o.analysis_type]
    /\ pc' = "capacity_compression"
    /\ UNCHANGED <<profile, pile, results, call>>

\* resistance_factor=None if use_lrfd else 1.0
AnalysisFactor == IF args.use_lrfd THEN None ELSE 20

\* results['capacity_compression_df'] = compute_capacity_profile(...)
CapacityCompression ==
    /\ pc = "capacity_compression"
    /\ results' = [results EXCEPT !.capacity_compression_df =
                      compute_capacity_profile(profile, pile, args.max_depth_m, args.dz,
                                               "compression", AnalysisFactor)]
    /\ pc' = "capacity_tension"
    /\ UNCHANGED <<profile, pile, args, call>>

\* results['capacity_tension_df'] = compute_capacity_profile(...)
CapacityTension ==
    /\ pc = "capacity_tension"
    /\ results' = [results EXCEPT !.capacity_tension_df =
                      compute_capacity_profile(profile, pile, args.max_depth_m, args.dz,
                                               "tension", AnalysisFactor)]
    /\ pc' = "tz"
    /\ UNCHANGED <<profile, pile, args, call>>

\* tz_depths / py_depths, or the default np.arange(5, max_depth_m, 5)
CurveDepths ==
    IF args.curve_depths = <<None>> THEN DefaultCurveDepths(args.max_depth_m)
    ELSE args.curve_depths

\* The t-z table, stored for compression and for tension alike.
TzTable ==
    /\ pc = "tz"
    /\ results' = [results EXCEPT !.tz_table = generate_tz_table(profile, pile, CurveDepths)]
    /\ pc' = "qz"
    /\ UNCHANGED <<profile, pile, args, call>>

\* pile_tip_depth = pile.length_m if pile.length_m > 0 else max_depth_m
PileTipDepth == IF pile.length_m > 0 THEN pile.length_m ELSE args.max_depth_m

\* The Q-z table: an exception raised in generate_qz_table leaves
\* run_complete_analysis, which returns nothing.
QzTable ==
    /\ pc = "qz"
    /\ LET r == generate_qz_table(profile, pile, PileTipDepth)
       IN  IF r.raised # ""
           THEN /\ pc' = "raised"
                /\ results' = NoResults
           ELSE /\ pc' = "py"
                /\ results' = [results EXCEPT !.qz_table = r.rows]
    /\ UNCHANGED <<profile, pile, args, call>>

\* The p-y table, and the return of the results.
PyTable ==
    /\ pc = "py"
    /\ results' = [results EXCEPT !.py_table =
                      generate_py_table(profile, pile, CurveDepths, args.analysis_type)]
    /\ pc' = "done"
    /\ UNCHANGED <<profile, pile, args, call>>

\* The discretizers as pure functions: the input curve is drawn at the start
\* and each action applies one discretizer to it.
DiscretizerInit ==
    /\ profile = ScenarioProfile /\ pile = ScenarioPile
    /\ pc = "idle"
    /\ \E curve \in InputCurves : args = [curve |-> curve]
    /\ results = NoResults
    /\ call = NoCall

Call_discretize_py_curve_4points ==
    /\ call = NoCall
    /\ call' = [op |-> "discretize_py_curve_4points",
                 result |-> discretize_py_curve_4points(args.curve)]
    /\ UNCHANGED <<profile, pile, pc, args, results>>

Call_discretize_tz_curve_5points ==
    /\ call = NoCall
    /\ call' = [op |-> "discretize_tz_curve_5points",
                 result |-> discretize_tz_curve_5points(args.curve)]
    /\ UNCHANGED <<profile, pile, pc, args, results>>

Call_discretize_qz_curve_5points ==
    /\ call = NoCall
    /\ call' = [op |-> "discretize_qz_curve_5points",
                 result |-> discretize_qz_curve_5points(args.curve)]
    /\ UNCHANGED <<profile, pile, pc, args, results>>

DiscretizerNext ==
    \/ Call_discretize_py_curve_4points
    \/ Call_discretize_tz_curve_5points
    \/ Call_discretize_qz_curve_5points

DiscretizerSpec == DiscretizerInit /\ [][DiscretizerNext]_vars

Next ==
    \/ Construct_SoilPoint
    \/ Construct_SoilLayer
    \/ Construct_PileProperties
    \/ Call_total_capacity_layered
    \/ Call_calculate_overburden_stress
    \/ Call_get_property_at_depth
    \/ Call_clay_shaft_friction
    \/ Call_sand_shaft_friction
    \/ Call_end_bearing_sand
    \/ Call_compute_capacity_profile
    \/ Call_tz_curve
    \/ Call_qz_curve
    \/ Call_generate_tz_table
    \/ Call_get_layer_at_depth
    \/ Call_profile_get_property_at_depth
    \/ Call_py_curve
    \/ Call_generate_py_table
    \/ run_complete_analysis
    \/ CapacityCompression
    \/ CapacityTension
    \/ TzTable
    \/ QzTable
    \/ PyTable

Spec == Init /\ [][Next]_vars

-----------------------------------------------------------------------------
(* Properties                                                              *)

\* The layers of the profile that hold a depth: top <= depth < bottom.
LayersAt(depth_m) ==
    {i \in 1..Len(profile) :
        profile[i].depth_top_m <= depth_m /\ depth_m < profile[i].depth_bot_m}

RECURSIVE SumFriction(_)
SumFriction(contributions) ==
    IF contributions = <<>> THEN 0
    ELSE Head(contributions).friction_kN + SumFriction(Tail(contributions))

\* C1: for every call of total_capacity_layered with a tip depth > 0, either
\* loading direction and any resistance factor, the sum of friction_kN over
\* layer_contributions equals the reported shaft_friction_kN (a contribution
\* is in raw force units, the reported force in 1/20 of them).
C1_ContributionsSumToShaftFriction ==
    (call.op = "total_capacity_layered" /\ call.depth_m > 0)
        => 20 * SumFriction(call.result.layer_contributions)
              = call.result.shaft_friction_kN

\* C2: at the uniform sand site with the 1.5 m open driven pile embedded 15 m,
\* run_complete_analysis with a max depth of at least 15 m does not raise, and
\* returns non-empty compression, Q-z and t-z tables.
C2_ScenarioAnalysisCompletes ==
    (profile = ScenarioProfile /\ pile = ScenarioPile /\ args.max_depth_m >= 300)
        => /\ pc # "raised"
           /\ pc = "done" => /\ results.capacity_compression_df # <<>>
                             /\ results.qz_table # <<>>
                             /\ results.tz_table # <<>>

\* C3: for compression loading and a tip depth > 0 in a layer with
\* (tip depth - layer top) < 2 x pile diameter, total_capacity_layered reports
\* end_bearing_kN = 0 and a status of insufficient penetration.
C3_ShallowTipHasNoEndBearing ==
    (call.op = "total_capacity_layered" /\ call.loading_type = "compression"
       /\ call.depth_m > 0)
        => \A i \in LayersAt(call.depth_m) :
              call.depth_m - profile[i].depth_top_m < 2 * (pile.diameter_m * 5)
                 => /\ call.result.end_bearing_kN = 0
                    /\ call.result.penetration_status
                          = "WARNING: Insufficient penetration"

\* A sand tip 0.75 m into its layer under a 0.5 m pile: short of 2 D, yet past
\* 1 D, with friction reported and no end bearing.
C3_Witness ==
    /\ call.op = "total_capacity_layered" /\ call.loading_type = "compression"
    /\ \E i \in LayersAt(call.depth_m) :
          /\ profile[i].soil_type = "sand"
          /\ call.depth_m - profile[i].depth_top_m >= pile.diameter_m * 5
          /\ call.depth_m - profile[i].depth_top_m < 2 * (pile.diameter_m * 5)
    /\ call.result.shaft_friction_kN > 0
    /\ call.result.end_bearing_kN = 0
    /\ call.result.penetration_status = "WARNING: Insufficient penetration"

\* The largest value of a parameter in API_TABLE_1_EXTENDED.
LargestTableValue(field) ==
    LET values == {API_TABLE_1_EXTENDED[k][field] : k \in DOMAIN API_TABLE_1_EXTENDED}
                     \ {None}
    IN  CHOOSE v \in values : \A w \in values : w <= v

\* The table's limit for a layer: the limit of its row, and for a band the
\* table gives no limit the largest limit of the table.
LimitFor(layer, field) ==
    IF HasTableParam(TableKey(layer), field)
    THEN API_TABLE_1_EXTENDED[TableKey(layer)][field]
    ELSE LargestTableValue(field)

\* C4: in every sand or sand-silt layer, whatever its relative-density band
\* and however large the overburden stress, sand_shaft_friction does not
\* exceed the table's friction limit and end_bearing_sand does not exceed the
\* table's end-bearing limit.
C4_SandResistanceWithinTableLimits ==
    \A i \in (IF call.op \in {"sand_shaft_friction", "end_bearing_sand"}
              THEN LayersAt(call.depth_m) ELSE {}) :
        profile[i].soil_type \in {"sand", "sand-silt"}
           => /\ call.op = "sand_shaft_friction"
                    => call.result <= LimitFor(profile[i], "f_L_kPa") * 2000
              /\ call.op = "end_bearing_sand"
                    => call.result <= LimitFor(profile[i], "q_L_MPa") * 1000 * 2000

\* C5: for a depth > 0 in a single layer from the surface with one constant
\* unit weight g, calculate_overburden_stress returns g x depth.
C5_StressOfConstantWeightIsExact ==
    (call.op = "calculate_overburden_stress" /\ call.depth_m > 0
       /\ Len(profile) = 1 /\ profile[1].depth_top_m = 0
       /\ call.depth_m + DzStress < profile[1].depth_bot_m
       /\ Len(profile[1].gamma_prime) = 1)
        => call.result = profile[1].gamma_prime[1].value * call.depth_m

\* C6: calculate_overburden_stress is non-decreasing in depth, across layer
\* boundaries and across ranges without unit weight, and 0 for depth <= 0.
C6_StressIsMonotone ==
    call.op = "calculate_overburden_stress"
        => /\ call.depth_m <= 0 => call.result = 0
           /\ \A d1 \in ProbeDepths(profile) :
                 d1 <= call.depth_m
                    => calculate_overburden_stress(profile, d1) <= call.result

\* A depth below a range without unit weight, with a shallower depth of
\* smaller, positive stress.
C6_Witness ==
    /\ call.op = "calculate_overburden_stress"
    /\ \E z \in 0..call.depth_m :
          IsNaN(SoilProfile_get_property_at_depth(profile, z, "gamma_prime"))
    /\ \E d1 \in ProbeDepths(profile) :
          /\ d1 < call.depth_m
          /\ 0 < calculate_overburden_stress(profile, d1)
          /\ calculate_overburden_stress(profile, d1) < call.result

\* The curve and the absolute depth of a call of SoilLayer.get_property_at_depth.
CalledCurve == LayerCurve(profile[call.layer], call.property_name)
CalledDepth == profile[call.layer].depth_top_m + call.depth_m

\* C7, as stated: SoilLayer.get_property_at_depth returns exactly v1 at the
\* depth of every measured point (z1, v1) of a curve sorted by depth.
C7_ExactAtEveryMeasuredPoint ==
    call.op = "get_property_at_depth"
        => \A i \in 1..Len(CalledCurve) :
              CalledCurve[i].depth_m = CalledDepth
                 => call.result = CalledCurve[i].value

\* C7, amended: SoilLayer.get_property_at_depth returns the first point's
\* value at or above the first point (the depth of the first point included,
\* also when the last point lies at that depth), the last point's value at or
\* below the last point when that is below the first point, exactly v1 at a
\* measured point (z1, v1) that is the only one at its depth, at a depth that
\* several points share the value of the first of them (of the last of them
\* when the depth is the curve's last and below the first point), and
\* strictly between two neighbouring points their linear interpolation; the
\* result never leaves the range of the values.
C7_InterpolatesAndClamps ==
    (call.op = "get_property_at_depth" /\ CalledCurve # <<>>)
        => LET curve == CalledCurve
               n == Len(curve)
               z == CalledDepth
               v == call.result
           IN  /\ z <= curve[1].depth_m => v = curve[1].value
               /\ (z >= curve[n].depth_m /\ z > curve[1].depth_m) => v = curve[n].value
               /\ \A i \in 1..n :
                     (/\ curve[i].depth_m = z
                      /\ \A j \in 1..n : j # i => curve[j].depth_m # z)
                        => v = curve[i].value
               /\ \A i \in 1..n :
                     (/\ curve[i].depth_m = z
                      /\ (z < curve[n].depth_m \/ z = curve[1].depth_m)
                      /\ \A j \in 1..(i - 1) : curve[j].depth_m < z)
                        => v = curve[i].value
               /\ \A i \in 1..(n - 1) :
                     (curve[i].depth_m < z /\ z < curve[i+1].depth_m)
                        => (v - curve[i].value) * (curve[i+1].depth_m - curve[i].depth_m)
                              = (z - curve[i].depth_m) * (curve[i+1].value - curve[i].value)
               /\ \E i \in 1..n : curve[i].value <= v
               /\ \E i \in 1..n : v <= curve[i].value

\* A call at a depth that two measured points with different values share.
C7_Witness ==
    /\ call.op = "get_property_at_depth"
    /\ \E i, j \in 1..Len(CalledCurve) :
          /\ i < j
          /\ CalledCurve[i].depth_m = CalledDepth
          /\ CalledCurve[j].depth_m = CalledDepth
          /\ CalledCurve[j].depth_m < CalledCurve[Len(CalledCurve)].depth_m
          /\ CalledCurve[i].value # CalledCurve[j].value
          /\ call.result = CalledCurve[i].value

\* su and the stress that a call of clay_shaft_friction works with.
CalledSu == SoilProfile_get_property_at_depth(profile, call.depth_m, "su")
CalledStress ==
    LET p0 == calculate_overburden_stress(profile, call.depth_m)
    IN  IF p0 <= 0 THEN 20 ELSE p0

\* C8: for su > 0 and every overburden stress (a zero stress replaced by
\* 1 kPa), clay_shaft_friction uses alpha <= 1 and returns f with
\* 0 <= f <= su; for tension it returns 0.8 times the compression value (to
\* the unit of 1/2000 kPa).
C8_ClayFrictionBounded ==
    (call.op = "clay_shaft_friction" /\ IsFinite(CalledSu) /\ CalledSu > 0)
        => /\ clay_alpha(CalledSu, CalledStress) <= 2000
           /\ 0 <= call.result
           /\ call.result <= CalledSu * 2000
           /\ call.for_tension
                 => LET compression ==
                            clay_shaft_friction(call.depth_m, profile, pile, FALSE)
                    IN  /\ 10 * call.result <= 8 * compression
                        /\ 8 * compression < 10 * (call.result + 1)

\* A tension call in soft clay under a stress past 4 su, where alpha is capped
\* at 1: the friction is 0.8 su.
C8_Witness ==
    /\ call.op = "clay_shaft_friction" /\ call.for_tension
    /\ IsFinite(CalledSu) /\ CalledSu > 0
    /\ CalledStress > 4 * 20 * CalledSu
    /\ 10 * call.result = 8 * CalledSu * 2000

\* C9: with a tip depth > 0 the reported total is (shaft friction + end
\* bearing) x the applied factor: the caller's factor if given, else 0.70
\* (compression) / 0.60 (tension) for driven pipe piles and 0.55 / 0.50 for
\* drilled shafts and grouted piles; applied_resistance_factor reports it.
C9_TotalIsFactoredSum ==
    (call.op = "total_capacity_layered" /\ call.depth_m > 0)
        => LET r == call.result
               tension == call.loading_type = "tension"
               standard ==
                   IF pile.pile_type \in {"driven_pipe_open", "driven_pipe_closed"}
                   THEN (IF tension THEN 12 ELSE 14)
                   ELSE (IF tension THEN 10 ELSE 11)
               applied == IF call.resistance_factor = None THEN standard
                          ELSE call.resistance_factor
               bearing == EndBearing(profile, pile, call.depth_m, tension)[1]
           IN  /\ r.applied_resistance_factor = applied
               /\ r.total_capacity_kN
                     = (SumFriction(r.layer_contributions) + bearing) * applied
               /\ r.total_capacity_kN = r.shaft_friction_kN + r.end_bearing_kN

\* A drilled or grouted pile under compression with the default factor, with
\* both friction and end bearing in the total.
C9_Witness ==
    /\ call.op = "total_capacity_layered" /\ call.depth_m > 0
    /\ call.loading_type = "compression" /\ call.resistance_factor = None
    /\ pile.pile_type \in {"drilled_shaft", "grouted_pile"}
    /\ call.result.applied_resistance_factor = 11
    /\ call.result.shaft_friction_kN > 0
    /\ call.result.end_bearing_kN > 0

\* C10: for tension loading total_capacity_layered reports end_bearing_kN = 0
\* at every depth, and every row of the tension capacity profile of
\* run_complete_analysis has zero end bearing and a total equal to its
\* factored shaft friction.
C10_TensionHasNoEndBearing ==
    /\ (call.op = "total_capacity_layered" /\ call.loading_type = "tension")
          => /\ call.result.end_bearing_kN = 0
             /\ call.result.total_capacity_kN = call.result.shaft_friction_kN
    /\ \A k \in 1..Len(results.capacity_tension_df) :
          /\ results.capacity_tension_df[k].end_bearing_kPa = 0
          /\ results.capacity_tension_df[k].total_capacity_kN
                = results.capacity_tension_df[k].cumulative_friction_kN

\* An analysis whose tension profile has a row of positive capacity at a depth
\* where the compression profile has end bearing.
C10_Witness ==
    \E k \in 1..Len(results.capacity_tension_df) :
        /\ results.capacity_tension_df[k].total_capacity_kN > 0
        /\ results.capacity_compression_df[k].end_bearing_kPa > 0

\* The total_capacity_kN column of a capacity profile increases strictly from
\* each row to the next over the rows of depth 0 to 15 m.
StrictlyIncreasingTo15m(table) ==
    \A k \in 1..(Len(table) - 1) :
        table[k + 1].depth_m <= 300
           => table[k].total_capacity_kN < table[k + 1].total_capacity_kN

\* C11: at the uniform dense sand site (one sand layer, 1.5 m driven open
\* pipe), the total_capacity_kN column of the compression capacity profile
\* increases strictly from each row to the next over the rows of depth 0 to
\* 15 m, the rows where end bearing switches on at two diameters included,
\* whatever the depth increment the caller asks for.
C11_ScenarioTotalStrictlyIncreasing ==
    (profile = ScenarioProfile /\ pile = ScenarioPile)
        => /\ StrictlyIncreasingTo15m(results.capacity_compression_df)
           /\ (call.op = "compute_capacity_profile" /\ call.loading_type = "compression")
                 => StrictlyIncreasingTo15m(call.result)

\* The layer of the profile at the depth of the call is a clay or a silt.
CalledInClay ==
    /\ get_layer_at_depth(profile, call.depth_m) # 0
    /\ profile[get_layer_at_depth(profile, call.depth_m)].soil_type \in {"clay", "silt"}

\* C12: in a clay or silt layer with finite su > 0 at the probed depth exactly
\* one clay p-y generator yields a curve, matlock_soft_clay when su <= 100 and
\* reese_stiff_clay when su > 100; generate_py_table adds exactly one row for
\* such a depth, routed to that generator, so that su = 100 goes to Matlock.
C12_OneClayGeneratorYieldsCurve ==
    /\ (call.op = "matlock_soft_clay" /\ CalledInClay /\ IsFinite(CalledSu) /\ CalledSu > 0)
          => (Len(call.result) > 0 <=> CalledSu <= 100)
    /\ (call.op = "reese_stiff_clay" /\ CalledInClay /\ IsFinite(CalledSu) /\ CalledSu > 0)
          => (Len(call.result) > 0 <=> CalledSu > 100)
    /\ call.op = "generate_py_table"
          => \A i \in 1..Len(call.depths_m) :
                LET d == call.depths_m[i]
                    li == get_layer_at_depth(profile, d)
                    su == SoilProfile_get_property_at_depth(profile, d, "su")
                    rows == {k \in 1..Len(call.result) : call.result[k].Depth = d}
                IN  (li # 0 /\ profile[li].soil_type \in {"clay", "silt"}
                       /\ IsFinite(su) /\ su > 0)
                      => /\ Cardinality(rows) = 1
                         /\ \A k \in rows :
                               call.result[k].generator
                                  = IF su <= 100 THEN "matlock_soft_clay"
                                    ELSE "reese_stiff_clay"

\* generate_py_table has routed a depth with su exactly 100 to Matlock, whose
\* curve there is not empty while Reese's is.
C12_Witness ==
    /\ call.op = "generate_py_table"
    /\ \E k \in 1..Len(call.result) :
          /\ SoilProfile_get_property_at_depth(profile, call.result[k].Depth, "su") = 100
          /\ call.result[k].generator = "matlock_soft_clay"
          /\ call.result[k].points[4].p > 0
          /\ Len(matlock_soft_clay(call.result[k].Depth, profile, pile,
                                    call.analysis_type)) > 0
          /\ reese_stiff_clay(call.result[k].Depth, profile, pile,
                              call.analysis_type) = <<>>

\* C13: for a depth with 0 < su <= 100 and static loading matlock_soft_clay
\* returns a curve that is not empty, whose displacements and resistances are
\* both non-decreasing from point to point, and whose last two resistances are
\* equal.
C13_MatlockStaticCurveRisesToPlateau ==
    (/\ call.op = "matlock_soft_clay" /\ call.analysis_type = "static"
     /\ IsFinite(CalledSu) /\ CalledSu > 0 /\ CalledSu <= 100)
        => /\ Len(call.result) >= 2
           /\ \A i \in 1..(Len(call.result) - 1) :
                 /\ call.result[i].x <= call.result[i + 1].x
                 /\ call.result[i].y <= call.result[i + 1].y
           /\ call.result[Len(call.result)].y = call.result[Len(call.result) - 1].y

\* The static Matlock curve at 5 m in the uniform clay (su 50, unit weight 7,
\* 0.5 m pile): seven points ending on the plateau 217.5 kN/m.
C13_Witness ==
    /\ call.op = "matlock_soft_clay" /\ call.analysis_type = "static"
    /\ call.depth_m = 100 /\ CalledSu = 50
    /\ SoilProfile_get_property_at_depth(profile, call.depth_m, "gamma_prime") = 7
    /\ Len(call.result) = 7
    /\ call.result[6].y = 1740000 /\ call.result[7].y = 1740000
    /\ call.result[6].x < call.result[7].x

\* The samples of a curve whose ordinate is closest to num / den times the
\* largest ordinate.
ClosestSamples(curve, num, den) ==
    LET y_max == MaxOrdinate(curve, 1)
        dist(i) == Abs(den * curve[i].y - num * y_max)
    IN  {j \in 1..Len(curve) : \A k \in 1..Len(curve) : dist(j) <= dist(k)}

\* C14: for an input curve that is not empty each discretizer emits, for each
\* target ratio r, a sample whose ordinate is closest to r times the largest
\* ordinate, with r = 0, 1/3, 2/3, 1 for p-y and r = 0, 1/4, 1/2, 3/4, 1 for
\* t-z and Q-z; the emitted displacement is the sample's times 1000 and the
\* emitted ordinate is the sample's, divided by 1000 for t-z and Q-z.
C14_DiscretizersEmitClosestSample ==
    Len(args.curve) > 0
        => /\ call.op = "discretize_py_curve_4points"
                => \A i \in 1..4 : \E j \in ClosestSamples(args.curve, i - 1, 3) :
                      /\ call.result[i].p = args.curve[j].y
                      /\ call.result[i].y = 1000 * args.curve[j].x
           /\ call.op = "discretize_tz_curve_5points"
                => \A i \in 1..5 : \E j \in ClosestSamples(args.curve, i - 1, 4) :
                      /\ 1000 * call.result[i].t = args.curve[j].y
                      /\ call.result[i].z = 1000 * args.curve[j].x
           /\ call.op = "discretize_qz_curve_5points"
                => \A i \in 1..5 : \E j \in ClosestSamples(args.curve, i - 1, 4) :
                      /\ 1000 * call.result[i].q = args.curve[j].y
                      /\ call.result[i].z = 1000 * args.curve[j].x

\* The first ordinate of the input curve is 0 and its largest ordinate is not
\* zero and is reached at the last sample only.
SingleMaximumAtEnd(curve) ==
    /\ Len(curve) >= 2
    /\ curve[1].y = 0
    /\ curve[Len(curve)].y # 0
    /\ \A j \in 1..(Len(curve) - 1) : curve[j].y < curve[Len(curve)].y

\* C15: for a curve whose first ordinate is 0 and whose largest ordinate is
\* not zero and reached at the last sample only, each discretizer emits the
\* first sample for the ratio 0 and the last sample for the ratio 1.0.
C15_EndsOfCurveAreEmitted ==
    SingleMaximumAtEnd(args.curve)
        => LET first == args.curve[1]
               last == args.curve[Len(args.curve)]
           IN  /\ call.op = "discretize_py_curve_4points"
                    => /\ call.result[1] = [p |-> 0, y |-> 1000 * first.x]
                       /\ call.result[4] = [p |-> last.y, y |-> 1000 * last.x]
               /\ call.op = "discretize_tz_curve_5points"
                    => /\ call.result[1] = [z |-> 1000 * first.x, t |-> 0]
                       /\ call.result[5] = [z |-> 1000 * last.x, t |-> last.y \div 1000]
               /\ call.op = "discretize_qz_curve_5points"
                    => /\ call.result[1] = [z |-> 1000 * first.x, q |-> 0]
                       /\ call.result[5] = [z |-> 1000 * last.x, q |-> last.y \div 1000]

\* A discretizer has been applied to a curve with a zero ordinate after the
\* first sample and its single maximum at the end.
C15_Witness ==
    /\ SingleMaximumAtEnd(args.curve)
    /\ Len(args.curve) = 4 /\ args.curve[3].y = 0
    /\ call.op = "discretize_py_curve_4points"
    /\ call.result[1].y = 3000 /\ call.result[4].y = 12000
    /\ call.result[4].p = 300000

\* C16: for an empty input curve each discretizer returns a complete record,
\* 4 pairs for p-y and 5 pairs for t-z and for Q-z, with every ordinate and
\* every displacement equal to 0.
C16_EmptyCurveGivesZeroRecord ==
    Len(args.curve) = 0
        => /\ call.op = "discretize_py_curve_4points"
                => call.result = [i \in 1..4 |-> [p |-> 0, y |-> 0]]
           /\ call.op = "discretize_tz_curve_5points"
                => call.result = [i \in 1..5 |-> [z |-> 0, t |-> 0]]
           /\ call.op = "discretize_qz_curve_5points"
                => call.result = [i \in 1..5 |-> [z |-> 0, q |-> 0]]

\* The t-z discretizer has been applied to the empty curve.
C16_Witness ==
    /\ args.curve = <<>>
    /\ call.op = "discretize_tz_curve_5points"
    /\ Len(call.result) = 5

\* The call is at a depth in a sand or sand-silt layer, under positive
\* overburden stress, whose (relative-density band, soil description) has no
\* value of the field in API Table 1: the fallback path of the function.
OnFallbackPath(field) ==
    LET li == get_layer_at_depth(profile, call.depth_m)
    IN  /\ li # 0
        /\ profile[li].soil_type \in {"sand", "sand-silt"}
        /\ calculate_overburden_stress(profile, call.depth_m) > 0
        /\ ~HasTableParam(TableKey(profile[li]), field)

\* C17: on the fallback path (no parameters in the standard table for the
\* layer's band and soil description) sand_shaft_friction and
\* end_bearing_sand each return a finite non-negative value and each emit a
\* warning.
C17_FallbackReturnsValueAndWarns ==
    /\ (call.op = "sand_shaft_friction" /\ OnFallbackPath("beta"))
          => /\ IsFinite(call.result) /\ call.result >= 0
             /\ Len(call.warnings) > 0
    /\ (call.op = "end_bearing_sand" /\ OnFallbackPath("Nq"))
          => /\ IsFinite(call.result) /\ call.result >= 0
             /\ Len(call.warnings) > 0

\* No point of a p-y table is NaN.
PyTableHasNoNaN(table) ==
    \A k \in 1..Len(table) : \A i \in 1..4 :
        /\ ~IsNaN(table[k].points[i].p)
        /\ ~IsNaN(table[k].points[i].y)

\* No point of a t-z table is NaN.
TzTableHasNoNaN(table) ==
    \A k \in 1..Len(table) : \A i \in 1..5 :
        /\ ~IsNaN(table[k].points[i].t)
        /\ ~IsNaN(table[k].points[i].z)

\* No numeric cell of a capacity profile is NaN.
CapacityProfileHasNoNaN(df) ==
    \A k \in 1..Len(df) :
        /\ ~IsNaN(df[k].unit_friction_kPa)
        /\ ~IsNaN(df[k].cumulative_friction_kN)
        /\ ~IsNaN(df[k].end_bearing_kPa)
        /\ ~IsNaN(df[k].total_capacity_kN)

\* C18: whatever the profile, layers that lack property curves included, no
\* numeric cell of a table of generate_py_table, generate_tz_table,
\* generate_qz_table or compute_capacity_profile is NaN.
C18_NoNaNInTables ==
    /\ call.op = "generate_py_table" => PyTableHasNoNaN(call.result)
    /\ PyTableHasNoNaN(results.py_table)
    /\ TzTableHasNoNaN(results.tz_table)
    /\ \A k \in 1..Len(results.qz_table) : \A i \in 1..5 :
          /\ ~IsNaN(results.qz_table[k].points[i].q)
          /\ ~IsNaN(results.qz_table[k].points[i].z)
    /\ CapacityProfileHasNoNaN(results.capacity_compression_df)
    /\ CapacityProfileHasNoNaN(results.capacity_tension_df)

\* The unit weight at sample k of calculate_overburden_stress.
SampleWeight(k) == SoilProfile_get_property_at_depth(profile, k * DzStress, "gamma_prime")

\* The trapezoid sum over the steps lo..hi of the integration, step k running
\* from sample k - 1 to sample k, where a step with an undefined unit weight
\* at either end is skipped.
RECURSIVE SumOfDefinedSteps(_, _)
SumOfDefinedSteps(lo, hi) ==
    IF lo > hi THEN 0
    ELSE IF lo = hi
    THEN IF IsNaN(SampleWeight(lo - 1)) \/ IsNaN(SampleWeight(lo)) THEN 0
         ELSE ((SampleWeight(lo - 1) + SampleWeight(lo)) * DzStress) \div 2
    ELSE LET mid == (lo + hi) \div 2
         IN  SumOfDefinedSteps(lo, mid) + SumOfDefinedSteps(mid + 1, hi)

\* C19: in calculate_overburden_stress every integration step at which the
\* unit weight is undefined is skipped and contributes nothing to the stress;
\* with fewer than two valid samples the result is 0, and it is never NaN.
C19_UndefinedStepsContributeNothing ==
    (call.op = "calculate_overburden_stress" /\ call.depth_m > 0)
        => LET n == ArangeLen(call.depth_m + DzStress, DzStress)
           IN  /\ ~IsNaN(call.result)
               /\ Cardinality({k \in 0..(n - 1) : ~IsNaN(SampleWeight(k))}) < 2
                     => call.result = 0
               /\ call.result = SumOfDefinedSteps(1, n - 1)

\* No two layers of the profile overlap.
NonOverlapping ==
    \A i \in 1..Len(profile), j \in 1..Len(profile) :
        i < j => \/ profile[i].depth_bot_m <= profile[j].depth_top_m
                 \/ profile[j].depth_bot_m <= profile[i].depth_top_m

\* C20: in a profile without overlapping layers get_layer_at_depth(d)
\* returns the one layer with top <= d < bottom and None when there is none;
\* a boundary shared by two layers belongs to the lower layer, the bottom of
\* the deepest layer to no layer, and where there is no layer
\* SoilProfile.get_property_at_depth returns NaN.
C20_LayerLookupIsTopInclusive ==
    NonOverlapping
        => /\ call.op = "get_layer_at_depth"
                => /\ call.result # 0 => LayersAt(call.depth_m) = {call.result}
                   /\ call.result = 0 => LayersAt(call.depth_m) = {}
                   /\ \A i \in 1..Len(profile), j \in 1..Len(profile) :
                         (/\ profile[i].depth_bot_m = call.depth_m
                          /\ profile[j].depth_top_m = call.depth_m)
                            => call.result = j
                   /\ (\A i \in 1..Len(profile) : profile[i].depth_bot_m <= call.depth_m)
                         => call.result = 0
           /\ (call.op = "SoilProfile.get_property_at_depth"
                   /\ LayersAt(call.depth_m) = {})
                => IsNaN(call.result)

\* A lookup at the boundary shared by the two layers of a profile, which
\* returns the lower layer.
C20_Witness ==
    /\ NonOverlapping /\ Len(profile) = 2
    /\ profile[1].depth_bot_m = profile[2].depth_top_m
    /\ call.op = "get_layer_at_depth"
    /\ call.depth_m = profile[1].depth_bot_m
    /\ call.result = 2

\* C21: compute_capacity_profile(max_depth, dz) returns one row per depth 0,
\* dz, 2 dz, ..., every row at a depth between 0 and max_depth inclusive,
\* also for a max_depth that is not a multiple of dz, and the row at depth 0
\* reports zero capacity.
C21_SweepStaysWithinMaxDepth ==
    call.op = "compute_capacity_profile"
        => /\ Len(call.result) >= 1
           /\ \A k \in 1..Len(call.result) :
                 /\ call.result[k].depth_m = (k - 1) * call.dz
                 /\ call.result[k].depth_m >= 0
                 /\ call.result[k].depth_m <= call.max_depth_m
           /\ call.result[1].total_capacity_kN = 0
           /\ call.result[1].cumulative_friction_kN = 0
           /\ call.result[1].end_bearing_kPa = 0

\* The rows of a t-z table at one depth, in table order.
RowsAtDepth(table, depth) ==
    SelectSeq(table, LAMBDA row : row.Depth = depth)

\* The position in depths_m of the depth of each row of a t-z table.
RowPosition(depths_m, row) ==
    CHOOSE i \in 1..Len(depths_m) : depths_m[i] = row.Depth

\* The unit shaft friction in compression at a depth inside a layer.
CompressionFriction(depth) ==
    IF profile[get_layer_at_depth(profile, depth)].soil_type \in {"clay", "silt"}
    THEN clay_shaft_friction(depth, profile, pile, FALSE)
    ELSE sand_shaft_friction(depth, profile, pile, FALSE)

\* C22: generate_tz_table takes the sampled depths in input order; for each
\* sampled depth it emits no row (the depth lies in no layer, or the unit
\* shaft friction is not positive) or exactly one compression row 'c'
\* immediately followed by one tension row 't'; a compression row never comes
\* without its tension row, nor a tension row without its compression row.
C22_TzRowsComeInPairs ==
    call.op = "generate_tz_table"
        => LET table == call.result
               depths_m == call.depths_m
           IN  /\ \A k \in 1..Len(table) :
                     \E i \in 1..Len(depths_m) : depths_m[i] = table[k].Depth
               /\ \A k \in 1..(Len(table) - 1) :
                     RowPosition(depths_m, table[k]) <= RowPosition(depths_m, table[k + 1])
               /\ \A k \in 1..Len(table) :
                     IF k % 2 = 1
                     THEN /\ table[k].Soil_type = "c"
                          /\ k < Len(table)
                          /\ table[k + 1].Depth = table[k].Depth
                     ELSE /\ table[k].Soil_type = "t"
                          /\ table[k - 1].Depth = table[k].Depth
               /\ \A i \in 1..Len(depths_m) :
                     LET rows == RowsAtDepth(table, depths_m[i])
                     IN  IF get_layer_at_depth(profile, depths_m[i]) = 0
                            \/ CompressionFriction(depths_m[i]) <= 0
                         THEN rows = <<>>
                         ELSE /\ Len(rows) = 2
                              /\ rows[1].Soil_type = "c"
                              /\ rows[2].Soil_type = "t"

\* A table for depths that are not in increasing order, with a pair of rows
\* in clay, pairs in sand, and a sampled depth without rows.
C22_Witness ==
    /\ call.op = "generate_tz_table"
    /\ call.depths_m = <<35, 5, 70, 20>>
    /\ Len(call.result) = 6
    /\ \E k \in 1..Len(call.result) :
          profile[get_layer_at_depth(profile, call.result[k].Depth)].soil_type = "clay"
    /\ \E k \in 1..Len(call.result) :
          profile[get_layer_at_depth(profile, call.result[k].Depth)].soil_type = "sand"

\* A curve is in depth order.
SortedByDepth(curve) ==
    \A i \in 1..(Len(curve) - 1) : curve[i].depth_m <= curve[i + 1].depth_m

\* Two curves hold the same points, each as many times.
SamePoints(a, b) ==
    /\ Len(a) = Len(b)
    /\ \A i \in 1..Len(a) :
          Cardinality({j \in 1..Len(a) : a[j] = a[i]})
              = Cardinality({j \in 1..Len(b) : b[j] = a[i]})

\* The curve of a constructed layer is the supplied curve in depth order.
StoredSorted(stored, supplied) ==
    SortedByDepth(stored) /\ SamePoints(stored, supplied)

\* C23: construction rejects malformed input with an error and yields no
\* object (a SoilPoint with depth < 0 or value < 0, a SoilLayer with depth_bot
\* <= depth_top, a PileProperties with diameter <= 0); valid input is
\* accepted with the supplied values stored unchanged, each curve of a layer
\* sorted by depth, and the gross area, shaft area and inner diameter of a
\* pile computed from the supplied values.
C23_ConstructionValidates ==
    /\ call.op = "SoilPoint"
          => IF call.depth_m < 0 \/ call.value < 0
             THEN call.result.raised = "ValueError" /\ call.result.object = None
             ELSE /\ call.result.raised = ""
                  /\ call.result.object.depth_m = call.depth_m
                  /\ call.result.object.value = call.value
    /\ call.op = "SoilLayer"
          => IF call.depth_bot_m <= call.depth_top_m
             THEN call.result.raised = "ValueError" /\ call.result.object = None
             ELSE /\ call.result.raised = ""
                  /\ call.result.object.name = call.name
                  /\ call.result.object.soil_type = call.soil_type
                  /\ call.result.object.depth_top_m = call.depth_top_m
                  /\ call.result.object.depth_bot_m = call.depth_bot_m
                  /\ call.result.object.relative_density_pct = call.relative_density_pct
                  /\ StoredSorted(call.result.object.gamma_prime, call.gamma_prime)
                  /\ StoredSorted(call.result.object.su, call.su)
                  /\ StoredSorted(call.result.object.phi_prime, call.phi_prime)
                  /\ StoredSorted(call.result.object.E50, call.E50)
    /\ call.op = "PileProperties"
          => IF call.diameter_m <= 0
             THEN call.result.raised = "ValueError" /\ call.result.object = None
             ELSE /\ call.result.raised = ""
                  /\ call.result.object.diameter_m = call.diameter_m
                  /\ call.result.object.wall_thickness_m = call.wall_thickness_m
                  /\ call.result.object.length_m = call.length_m
                  /\ call.result.object.pile_type = call.pile_type
                  /\ 4 * call.result.object.area_gross_m2
                        = call.diameter_m * call.diameter_m
                  /\ call.result.object.area_shaft_m2 = call.diameter_m * call.length_m
                  /\ call.result.object.inner_diameter_m
                        = call.diameter_m - 2 * call.wall_thickness_m

\* A layer accepted with a curve supplied out of depth order, next to the
\* rejected layer of zero thickness.
C23_Witness ==
    /\ call.op = "SoilLayer"
    /\ call.depth_top_m = 10 /\ call.depth_bot_m = 20
    /\ call.result.raised = ""
    /\ call.result.object.su # call.su
    /\ SoilLayer_post_init("Layer", "clay", 10, 10, <<>>, call.su, <<>>, <<>>, 50).raised
          = "ValueError"

\* The carbonate reduction factor of a layer for a pile installation method,
\* in 1/100: the band of the carbonate content for a driven pile, one factor
\* for a drilled or grouted pile.
CarbonateFactor(carbonate_content_pct, is_cemented, pile_type) ==
    IF pile_type \in {"drilled_shaft", "grouted_pile"}
    THEN CARBONATE_REDUCTION_FACTORS.drilled_grouted.all_carbonate
    ELSE IF is_cemented THEN CARBONATE_REDUCTION_FACTORS.driven_pile.cemented
    ELSE IF carbonate_content_pct < 30
         THEN CARBONATE_REDUCTION_FACTORS.driven_pile.low_carbonate
    ELSE IF carbonate_content_pct <= 70
         THEN CARBONATE_REDUCTION_FACTORS.driven_pile.moderate_carbonate
    ELSE CARBONATE_REDUCTION_FACTORS.driven_pile.high_carbonate

\* The profile with the carbonate content and cementation of its top layer
\* set.
CarbonateProfile(carbonate_content_pct, is_cemented) ==
    [profile EXCEPT ![1] = WithCarbonate(profile[1], carbonate_content_pct, is_cemented)]

\* C24: the axial capacity accounts for carbonate soils: the unit shaft
\* friction of a layer is multiplied by the carbonate reduction factor of the
\* layer's carbonate band and the pile installation method, so that two
\* profiles that differ only in the carbonate content or cementation of a
\* layer that contributes friction get different capacities whenever their
\* factors differ.
C24_CarbonateFactorApplied ==
    (/\ call.op = "total_capacity_layered"
     /\ call.depth_m > 0
     /\ call.result.layer_contributions # <<>>
     /\ call.result.layer_contributions[1].layer = profile[1].name
     /\ call.result.layer_contributions[1].friction_kN > 0)
        => \A carbonate \in {<<0, FALSE>>, <<50, FALSE>>, <<0, TRUE>>} :
              CarbonateFactor(carbonate[1], carbonate[2], pile.pile_type)
                    # CarbonateFactor(80, FALSE, pile.pile_type)
                 => total_capacity_layered(
                        CarbonateProfile(carbonate[1], carbonate[2]), pile,
                        call.depth_m, call.loading_type,
                        call.resistance_factor).total_capacity_kN
                    # total_capacity_layered(
                        CarbonateProfile(80, FALSE), pile,
                        call.depth_m, call.loading_type,
                        call.resistance_factor).total_capacity_kN

\* The unit weight at the depth of the call.
CalledGamma == SoilProfile_get_property_at_depth(profile, call.depth_m, "gamma_prime")

\* The ultimate resistance pu x D behind a Matlock curve, in 1/80 kN/m: the
\* second point of every Matlock curve is 0.23 pu D.
CalledPuD == call.result[2].y \div 23

\* C25: in matlock_soft_clay, with J = 0.5 and z_R = 6 D / (D gamma' / su + J),
\* pu x D equals 3 su D + gamma' z D + J su z at depths above z_R and 9 su D at
\* every depth at or below z_R; it never exceeds 9 su D and has no jump at
\* z_R (z < z_R is decided as z (D gamma' + 2 su) < 120 D su in model units).
C25_MatlockUltimateResistance ==
    (/\ call.op = "matlock_soft_clay"
     /\ call.result # <<>>
     /\ IsFinite(CalledGamma))
        => LET su == CalledSu
               D == pile.diameter_m
               z == call.depth_m
               near_surface == 60 * su * D + CalledGamma * z * D + 2 * su * z
               deep == 180 * su * D
               position == z * (D * CalledGamma + 2 * su) - 120 * D * su
           IN  /\ call.result[2].y = 23 * CalledPuD
               /\ position < 0 => CalledPuD = near_surface
               /\ position >= 0 => CalledPuD = deep
               /\ CalledPuD <= deep
               /\ position = 0 => near_surface = deep

\* Matlock curves at, above and below the transition depth of the weak clay.
C25_Witness ==
    /\ call.op = "matlock_soft_clay"
    /\ call.result # <<>>
    /\ IsFinite(CalledGamma)
    /\ call.depth_m * (pile.diameter_m * CalledGamma + 2 * CalledSu)
          = 120 * pile.diameter_m * CalledSu
    /\ matlock_soft_clay(call.depth_m - 1, profile, pile, "static")[2].y
          < call.result[2].y
    /\ matlock_soft_clay(call.depth_m + 1, profile, pile, "static")[2].y
          = call.result[2].y

\* The unit shaft friction t_max behind the t-z curve of the call.
CalledTMax ==
    IF call.op = "tz_curve_clay"
    THEN clay_shaft_friction(call.depth_m, profile, pile, call.for_tension)
    ELSE sand_shaft_friction(call.depth_m, profile, pile, call.for_tension)

\* The shape the t-z curves are said to have: resistance rising to t_max at
\* the peak displacement 0.01 D (100 D in curve units), then 0.8 t_max from
\* twice the peak displacement on in clay, t_max in sand; the curve ends at
\* the cap of 0.5 m (20000 in curve units), which no displacement exceeds.
TzShape(curve, t_max, softening) ==
    \E peak \in 1..Len(curve) :
        /\ curve[peak].x = 100 * pile.diameter_m
        /\ curve[peak].y = 100 * t_max
        /\ curve[1].x = 0 /\ curve[1].y = 0
        /\ \A i \in 1..(peak - 1) :
              curve[i].x < curve[i + 1].x /\ curve[i].y < curve[i + 1].y
        /\ peak < Len(curve)
        /\ \A i \in (peak + 1)..Len(curve) :
              IF softening
              THEN curve[i].x >= 200 * pile.diameter_m /\ curve[i].y = 80 * t_max
              ELSE curve[i].x > curve[peak].x /\ curve[i].y = 100 * t_max
        /\ softening => curve[peak + 1].x = 200 * pile.diameter_m
        /\ curve[Len(curve)].x = 20000
        /\ \A i \in 1..Len(curve) : curve[i].x <= 20000

\* C26: whenever the unit shaft friction t_max is positive, both t-z
\* generators return a curve of exactly 8 (displacement, resistance) points
\* with peak displacement 0.01 D: the resistance rises to t_max at the peak
\* displacement; in clay it then drops to 0.8 t_max at twice the peak
\* displacement and stays there, in sand it stays at t_max.
C26_TzCurvesHaveEightPoints ==
    (call.op \in {"tz_curve_clay", "tz_curve_sand"} /\ CalledTMax > 0)
        => /\ Len(call.result) = 8
           /\ TzShape(call.result, CalledTMax, call.op = "tz_curve_clay")

\* C26, amended: whenever t_max is positive, tz_curve_clay returns 8 points
\* and tz_curve_sand 7 (it has no point at twice the peak displacement); the
\* resistance rises to t_max at the peak displacement 0.01 D, then drops to
\* 0.8 t_max at twice the peak displacement and stays there in clay, and
\* stays at t_max in sand; with t_max not positive both return no curve.
C26_TzCurveShapes ==
    call.op \in {"tz_curve_clay", "tz_curve_sand"}
        => IF CalledTMax > 0
           THEN /\ Len(call.result) = (IF call.op = "tz_curve_clay" THEN 8 ELSE 7)
                /\ TzShape(call.result, CalledTMax, call.op = "tz_curve_clay")
           ELSE call.result = <<>>

\* A sand curve of 7 points in a profile whose clay curve has 8.
C26_Witness ==
    /\ call.op = "tz_curve_sand"
    /\ CalledTMax > 0
    /\ Len(call.result) = 7
    /\ \E d \in TipDepths : Len(tz_curve_clay(d, profile, pile, call.for_tension)) = 8

\* C27: every result of total_capacity_layered has total_capacity_kN =
\* shaft_friction_kN + end_bearing_kN, all three on the same factored basis
\* (each the applied resistance factor times a raw force), for every depth,
\* loading direction and resistance factor; at a depth <= 0 all three are 0.
C27_TotalIsShaftPlusEndBearing ==
    call.op = "total_capacity_layered"
        => LET r == call.result
           IN  /\ r.total_capacity_kN = r.shaft_friction_kN + r.end_bearing_kN
               /\ r.total_capacity_kN % r.applied_resistance_factor = 0
               /\ r.shaft_friction_kN % r.applied_resistance_factor = 0
               /\ r.end_bearing_kN % r.applied_resistance_factor = 0
               /\ call.resistance_factor # None
                     => r.applied_resistance_factor
                          = (IF call.depth_m <= 0 THEN 20 ELSE call.resistance_factor)
               /\ call.depth_m <= 0
                     => /\ r.total_capacity_kN = 0
                        /\ r.shaft_friction_kN = 0
                        /\ r.end_bearing_kN = 0

\* A factored compression result with both shaft friction and end bearing.
C27_Witness ==
    /\ call.op = "total_capacity_layered"
    /\ call.depth_m > 0
    /\ call.loading_type = "compression"
    /\ call.result.applied_resistance_factor # 20
    /\ call.result.shaft_friction_kN > 0
    /\ call.result.end_bearing_kN > 0

\* The result of the call for the other loading direction.
CompressionResult ==
    total_capacity_layered(profile, pile, call.depth_m, "compression",
                           call.resistance_factor)

\* C28: for the same profile, pile and tip depth the tension result of
\* total_capacity_layered never exceeds the compression result, in
\* shaft_friction_kN and in total_capacity_kN, when both calls use the default
\* resistance factors or the same explicit factor.
C28_TensionNeverExceedsCompression ==
    (call.op = "total_capacity_layered" /\ call.loading_type = "tension")
        => /\ call.result.shaft_friction_kN <= CompressionResult.shaft_friction_kN
           /\ call.result.total_capacity_kN <= CompressionResult.total_capacity_kN

\* A tension result with friction from clay and from sand, below the
\* compression result under the default factors.
C28_Witness ==
    /\ call.op = "total_capacity_layered"
    /\ call.loading_type = "tension"
    /\ call.resistance_factor = None
    /\ Len(call.result.layer_contributions) = 2
    /\ call.result.shaft_friction_kN > 0
    /\ call.result.shaft_friction_kN < CompressionResult.shaft_friction_kN
    /\ call.result.total_capacity_kN < CompressionResult.total_capacity_kN

\* The (ordinate, displacement) points the matching discretizer emits for the
\* curve a generator has returned.
EmittedPoints ==
    IF call.op \in {"matlock_soft_clay", "reese_stiff_clay", "sand_py_curve"}
    THEN LET points == discretize_py_curve_4points(call.result)
         IN  [i \in 1..4 |-> [ordinate |-> points[i].p, displacement |-> points[i].y]]
    ELSE IF call.op \in {"tz_curve_clay", "tz_curve_sand"}
    THEN LET points == discretize_tz_curve_5points(call.result)
         IN  [i \in 1..5 |-> [ordinate |-> points[i].t, displacement |-> points[i].z]]
    ELSE LET points == discretize_qz_curve_5points(call.result)
         IN  [i \in 1..5 |-> [ordinate |-> points[i].q, displacement |-> points[i].z]]

\* a <= b on floating-point values: false when either is NaN.
FloatLeq(a, b) == ~IsNaN(a) /\ ~IsNaN(b) /\ a <= b

\* The generators whose curves the discretizers take.
CurveGenerators ==
    {"matlock_soft_clay", "reese_stiff_clay", "sand_py_curve",
     "tz_curve_clay", "tz_curve_sand", "qz_curve"}

\* C29: for every curve the generators produce (Matlock and Reese, static
\* and cyclic, sand p-y, clay and sand t-z, Q-z) the points the matching
\* discretizer emits are non-decreasing in ordinate and in displacement from
\* the first to the last, and no emitted displacement is infinite.
C29_EmittedPointsAreMonotone ==
    (call.op \in CurveGenerators /\ call.result # <<>>)
        => /\ \A i \in 1..(Len(EmittedPoints) - 1) :
                 /\ FloatLeq(EmittedPoints[i].ordinate, EmittedPoints[i + 1].ordinate)
                 /\ FloatLeq(EmittedPoints[i].displacement,
                             EmittedPoints[i + 1].displacement)
           /\ \A i \in 1..Len(EmittedPoints) : EmittedPoints[i].displacement # Inf

\* The place of a relative-density band in the order very loose, loose,
\* medium dense, dense, very dense.
BandRank(band) ==
    CASE band = "very_loose" -> 1
      [] band = "loose" -> 2
      [] band = "medium_dense" -> 3
      [] band = "dense" -> 4
      [] band = "very_dense" -> 5

\* The deep one-layer profiles of the same soil description and unit weight
\* as the profile of the call, in a looser relative-density band.
LooserProfiles ==
    {prof \in DeepProfiles :
        /\ prof[1].soil_type = profile[1].soil_type
        /\ BandRank(from_percentage(prof[1].relative_density_pct))
              < BandRank(from_percentage(profile[1].relative_density_pct))}

\* C30: at equal overburden stress and for the same soil description the
\* unit shaft friction of sand_shaft_friction is non-decreasing in the
\* relative-density band, the bands served by the fallback coefficient
\* included.
C30_FrictionGrowsWithDensity ==
    (call.op = "sand_shaft_friction" /\ profile \in DeepProfiles)
        => \A looser \in LooserProfiles :
              sand_shaft_friction(call.depth_m, looser, pile, call.for_tension)
                  <= call.result

=============================================================================
